---- MODULE Spec2Model ----
(***************************************************************************)
(* A model of the embargo access check (common/djangoapps/embargo/api.py)  *)
(* and of the course content-tree traversals of the course APIs            *)
(* (lms/djangoapps/course_api/v0, lms/djangoapps/server_api/courses).      *)
(***************************************************************************)
EXTENDS Integers, Sequences, FiniteSets, TLC

(***************************************************************************)
(* Part I.  The embargo access check.                                      *)
(***************************************************************************)

\* Bounds of the embargo model.
MaxIpEntries == 2
\* The reads of one user's profile are counted up to this many.
MaxReads == 2

\* Python's None, for values that are otherwise strings.
None == "<None>"
\* The outcome of a GeoIP lookup that raises (malformed address).
GeoRaise == "<raise>"

Courses == {"c1"}
Countries == {"US", "FR"}
Users == {"u1", "u2"}
\* "1.1.1.1" is a US IPv4 address, "2001:db8::1" a French IPv6 address,
\* "9.9.9.9" is in no GeoIP database, "bad" is not an address at all.
Ips == {"1.1.1.1", "2001:db8::1", "9.9.9.9", "bad"}
\* EMBARGO_SITE_REDIRECT_URL: unset, empty, or a URL.
RedirectSettings == {None, "", "/embargo"}

VARIABLES
    \* --- embargo: configuration the check reads ---
    restricted,      \* RestrictedCourse: the set of restricted courses
    whitelist,       \* CountryAccessRule: course -> whitelisted countries
    blacklist,       \* CountryAccessRule: course -> blacklisted countries
    blacklist_ips,   \* IPFilter.current().blacklist_ips
    whitelist_ips,   \* IPFilter.current().whitelist_ips
    redirect_url,    \* settings.EMBARGO_SITE_REDIRECT_URL
    profile,         \* user -> stored profile country code, or None
    \* --- embargo: process state ---
    cache,           \* django cache: user -> cached profile country, or None
    \* --- embargo: the last check_access call ---
    args,            \* [user, ip, course] of the last call, or NoCall
    response,        \* what the call returned (or that it raised)
    logged,          \* the messages log.info wrote during the call
    lookups,         \* the GeoIP lookups made during the call
    fetched,         \* the users whose profile was read during the call
    profile_reads,   \* user -> how often the profile was read, in all calls
    \* --- course tree: the modulestore's content of the course ---
    kids,            \* block -> the usage keys of its children, in order
    has_children,    \* block -> whether its class declares children
    \* --- course tree: the descriptors loaded for the request ---
    children,        \* descriptor -> the value of its children attribute
    \* --- course tree: the last request ---
    treq,            \* the view, the content node, depth and include_fields
    tres,            \* the data the view returned
    \* --- graded content: the structure get_structure returned ---
    block_type,      \* block -> its block_type
    graded,          \* block -> fields['graded']
    expanded,        \* blocks whose fields['children'] holds block dicts
    preserialized,   \* blocks _preserialize_block has promoted fields of
    located,         \* blocks that were given a 'location'
    \* --- graded content: the last _filter_children call ---
    kwargs,          \* the keyword arguments: a set of <<name, value>>
    visited,         \* the blocks _filter_children was called on
    \* --- course structure: from_dict and its serialization ---
    flat,            \* the dictionary handed to CourseStructure.from_dict
    structure,       \* the CourseStructure built from it (or KeyError)
    serialized,      \* CourseStructureSerializer's data for the structure
    rebuilt,         \* CourseStructure.from_dict of the serialized data
    \* --- course structure: objects and who refers to them ---
    heap,            \* object id -> the Block object's attributes, or Free
    caller_blocks,   \* the caller's mapping: key -> object id of a Block
    structures,      \* the CourseStructures constructed: root and blocks
    lastop,          \* the last operation on the objects
    \* --- the depth query parameter ---
    dreq,            \* the view requested and its raw depth parameter
    dres,            \* the response status and the depth the view used
    \* --- the API key permission ---
    DEBUG,           \* settings.DEBUG
    EDX_API_KEY,     \* settings.EDX_API_KEY, or Unset
    META,            \* request.META of the last request checked
    permitted,       \* what has_permission returned for it
    \* --- course groups ---
    relationships,   \* CourseGroupRelationship: <<course, group>> -> rows
    rreq,            \* the last request: method, course_id, group_id, and
                     \* the rows the pair had when it came
    rres,            \* its response
    rbefore,         \* the CourseGroupRelationship table before it
    rprev,           \* the request before it
    \* --- concurrent requests in the profile-country predicate ---
    ruser,           \* request -> the user it is made for
    rpc,             \* request -> where it stands in the predicate
    rlocal,          \* request -> its local variable profile_country
    rmissed,         \* request -> whether its cache.get returned None
    rverdict,        \* request -> whether the predicate gave a reason
    \* --- one fetch_children call, frame by frame ---
    creq,            \* the node and depth the call was made with
    cstack,          \* the frames of fetch_children, the innermost last
    cstate,          \* "idle", "running", "returned" or "raised"
    cmaxnest,        \* the most recursive levels below the first frame
    \* --- split_mongo BlockData ---
    bd_stored,       \* the stored mapping a BlockData is made from
    bd_block,        \* BlockData(bd_stored), with what was set on it since
    bd_storable,     \* bd_block.to_storable()
    bd_again,        \* BlockData(bd_storable)
    bd_pc,           \* how far this went: "stored", "built", "serialized",
                     \* "rebuilt"
    \* --- course roles of one user in one course ---
    access_roles,    \* CourseAccessRole: role -> rows of the user and course
    forum_moderator, \* whether the user has the forum role Moderator
    mreq,            \* the last _manage_role call: role and action
    mres,            \* whether it returned or raised ValueError
    mbefore,         \* the rows and the forum role before it
    \* --- enrolling users in courses ---
    enrollments,     \* CourseEnrollment: the (user id, course) pairs
    enrollment_allowed,  \* CourseEnrollmentAllowed: (email, course) pairs
    ureq,            \* the last POST: course and payload
    ures             \* what post handed back

embargoVars == <<restricted, whitelist, blacklist, blacklist_ips, whitelist_ips,
                 redirect_url, profile, cache, args, response, logged, lookups,
                 fetched, profile_reads>>

treeVars == <<kids, has_children, children, treq, tres>>

gradedVars == <<block_type, graded, expanded, preserialized, located, kwargs,
                visited>>

structVars == <<flat, structure, serialized, rebuilt>>

\* The variables of the subsystems modelled after the graded-content filter.
ownVars == <<heap, caller_blocks, structures, lastop>>

depthVars == <<dreq, dres>>

permVars == <<DEBUG, EDX_API_KEY, META, permitted>>

groupVars == <<relationships, rreq, rres, rbefore, rprev>>

raceVars == <<ruser, rpc, rlocal, rmissed, rverdict>>

callVars == <<creq, cstack, cstate, cmaxnest>>

blockVars == <<bd_stored, bd_block, bd_storable, bd_again, bd_pc>>

roleVars == <<access_roles, forum_moderator, mreq, mres, mbefore>>

enrollVars == <<enrollments, enrollment_allowed, ureq, ures>>

laterVars == <<structVars, ownVars, depthVars, permVars, groupVars, raceVars,
               callVars, blockVars, roleVars, enrollVars>>

\* What the actions of one subsystem leave alone.
earlierVars == <<embargoVars, treeVars, gradedVars>>
exceptStruct == <<earlierVars, ownVars, depthVars, permVars, groupVars,
                  raceVars, callVars, blockVars, roleVars, enrollVars>>
exceptOwn == <<earlierVars, structVars, depthVars, permVars, groupVars,
               raceVars, callVars, blockVars, roleVars, enrollVars>>
exceptDepth == <<earlierVars, structVars, ownVars, permVars, groupVars,
                 raceVars, callVars, blockVars, roleVars, enrollVars>>
exceptPerm == <<earlierVars, structVars, ownVars, depthVars, groupVars,
                raceVars, callVars, blockVars, roleVars, enrollVars>>
exceptGroup == <<earlierVars, structVars, ownVars, depthVars, permVars,
                 raceVars, callVars, blockVars, roleVars, enrollVars>>

exceptRace == <<earlierVars, structVars, ownVars, depthVars, permVars,
                groupVars, callVars, blockVars, roleVars, enrollVars>>

\* What a request inside the profile-country predicate leaves alone: all of
\* the embargo state but the cache, and the other subsystems.
embargoExceptCache == <<restricted, whitelist, blacklist, blacklist_ips,
                        whitelist_ips, redirect_url, profile, args, response,
                        logged, lookups, fetched, profile_reads>>
besideRace == <<structVars, ownVars, depthVars, permVars, groupVars,
                callVars, blockVars, roleVars, enrollVars>>

exceptCall == <<earlierVars, structVars, ownVars, depthVars, permVars,
                groupVars, raceVars, blockVars, roleVars, enrollVars>>
besideCall == <<structVars, ownVars, depthVars, permVars, groupVars,
                raceVars, blockVars, roleVars, enrollVars>>

exceptBlock == <<earlierVars, structVars, ownVars, depthVars, permVars,
                 groupVars, raceVars, callVars, roleVars, enrollVars>>

exceptRole == <<earlierVars, structVars, ownVars, depthVars, permVars,
                groupVars, raceVars, callVars, blockVars, enrollVars>>

exceptEnroll == <<earlierVars, structVars, ownVars, depthVars, permVars,
                  groupVars, raceVars, callVars, blockVars, roleVars>>

vars == <<embargoVars, treeVars, gradedVars, laterVars>>

NoCall == [user |-> None, ip |-> None, course |-> None]

\* ---- responses ----
NoneResponse == [kind |-> "None", location |-> ""]
HttpResponseRedirect(url) == [kind |-> "redirect", location |-> url]
HttpResponseForbidden == [kind |-> "forbidden", location |-> ""]
Raised == [kind |-> "raise", location |-> ""]

\* ---- external collaborators ----

\* pygeoip country_code_by_addr on the IPv4 database: the code of a known
\* address, "" for an address in no range, an error for what is no IPv4
\* address.
GeoIPv4(ip_addr) ==
    CASE ip_addr = "1.1.1.1" -> "US"
      [] ip_addr = "9.9.9.9" -> ""
      [] OTHER -> GeoRaise

\* The same on the IPv6 database.
GeoIPv6(ip_addr) ==
    CASE ip_addr = "2001:db8::1" -> "FR"
      [] OTHER -> GeoRaise

\* ip_addr.find(':') >= 0
HasColon(ip_addr) == ip_addr = "2001:db8::1"

\* student.models.unique_id_for_user: an opaque id of the user.
unique_id_for_user(user) == <<"anonymous-id", user>>

\* unicode.upper() on the country codes the profiles hold.
Upper(code) ==
    CASE code = "us" -> "US"
      [] code = "fr" -> "FR"
      [] OTHER -> code

\* RestrictedCourse.is_restricted_course
is_restricted_course(course_key) == course_key \in restricted

\* CountryAccessRule.is_course_embargoed_in_country_list: for the whitelist,
\* whether the country passes it (no whitelist, or the country is on it); for
\* the blacklist, whether the country is on it.
is_course_embargoed_in_country_list(course_id, country, list_type) ==
    IF list_type = "whitelist"
    THEN whitelist[course_id] = {} \/ country \in whitelist[course_id]
    ELSE country \in blacklist[course_id]

\* ---- embargo/api.py ----

\* A log message: the REASONS template that was formatted and its arguments.
NoMsg == [reason |-> None, ip_addr |-> "", ip_country |-> "", user_id |-> <<>>,
          profile_country |-> "", from_course |-> <<>>]

_from_course_msg(course_id, course_is_embargoed) ==
    IF course_is_embargoed THEN <<"from course ", course_id>> ELSE <<>>

_country_code_from_ip(ip_addr) ==
    IF HasColon(ip_addr) THEN GeoIPv6(ip_addr) ELSE GeoIPv4(ip_addr)

\* REASONS['ip_blacklist'].format(...)
ReasonIpBlacklist(ip_addr, from_course) ==
    [NoMsg EXCEPT !.reason = "ip_blacklist", !.ip_addr = ip_addr,
                  !.from_course = from_course]

\* REASONS['ip_country'].format(...)
ReasonIpCountry(ip_addr, ip_country, from_course) ==
    [NoMsg EXCEPT !.reason = "ip_country", !.ip_addr = ip_addr,
                  !.ip_country = ip_country, !.from_course = from_course]

\* REASONS['profile_country'].format(...)
ReasonProfileCountry(user_id, profile_country, from_course) ==
    [NoMsg EXCEPT !.reason = "profile_country", !.user_id = user_id,
                  !.profile_country = profile_country,
                  !.from_course = from_course]

\* What a check function did: the reason it returned (NoMsg for None), whether
\* it raised instead, the GeoIP lookups it made, the profiles it read and the
\* cache it left.
CheckResult(msg, raised, geo, read, cacheOut) ==
    [msg |-> msg, raised |-> raised, geo |-> geo, read |-> read,
     cache |-> cacheOut]

_is_embargoed_by_ip_WhitelistFirst(ip_addr, course_id, course_is_embargoed, cacheIn) ==
    IF ip_addr \in whitelist_ips
    THEN CheckResult(NoMsg, FALSE, <<>>, {}, cacheIn)
    ELSE IF ip_addr \in blacklist_ips
    THEN CheckResult(ReasonIpBlacklist(ip_addr,
                        _from_course_msg(course_id, course_is_embargoed)),
                     FALSE, <<>>, {}, cacheIn)
    ELSE CheckResult(NoMsg, FALSE, <<>>, {}, cacheIn)

_is_embargoed_by_ip_NoWhitelistIps(ip_addr, course_id, course_is_embargoed, cacheIn) ==
    LET ip_country == _country_code_from_ip(ip_addr)
        from_course == _from_course_msg(course_id, course_is_embargoed)
    IN  IF ip_addr \in blacklist_ips
        THEN CheckResult(ReasonIpBlacklist(ip_addr, from_course), FALSE, <<>>,
                         {}, cacheIn)
        ELSE IF ip_country = GeoRaise
        THEN CheckResult(NoMsg, TRUE, <<ip_addr>>, {}, cacheIn)
        ELSE IF course_id # ""
                /\ ~is_course_embargoed_in_country_list(course_id, ip_country, "whitelist")
        THEN CheckResult(ReasonIpCountry(ip_addr, ip_country, from_course),
                         FALSE, <<ip_addr>>, {}, cacheIn)
        ELSE IF course_id # ""
                /\ is_course_embargoed_in_country_list(course_id, ip_country, "blacklist")
        THEN CheckResult(ReasonIpCountry(ip_addr, ip_country, from_course),
                         FALSE, <<ip_addr>>, {}, cacheIn)
        ELSE CheckResult(NoMsg, FALSE, <<ip_addr>>, {}, cacheIn)

_is_embargoed_by_ip_WhitelistInverted(ip_addr, course_id, course_is_embargoed, cacheIn) ==
    LET ip_country == _country_code_from_ip(ip_addr)
        from_course == _from_course_msg(course_id, course_is_embargoed)
    IN  IF ip_addr \in blacklist_ips
        THEN CheckResult(ReasonIpBlacklist(ip_addr, from_course), FALSE, <<>>,
                         {}, cacheIn)
        ELSE IF ip_addr \in whitelist_ips
        THEN CheckResult(NoMsg, FALSE, <<>>, {}, cacheIn)
        ELSE IF ip_country = GeoRaise
        THEN CheckResult(NoMsg, TRUE, <<ip_addr>>, {}, cacheIn)
        ELSE IF course_id # ""
                /\ is_course_embargoed_in_country_list(course_id, ip_country, "whitelist")
        THEN CheckResult(ReasonIpCountry(ip_addr, ip_country, from_course),
                         FALSE, <<ip_addr>>, {}, cacheIn)
        ELSE IF course_id # ""
                /\ is_course_embargoed_in_country_list(course_id, ip_country, "blacklist")
        THEN CheckResult(ReasonIpCountry(ip_addr, ip_country, from_course),
                         FALSE, <<ip_addr>>, {}, cacheIn)
        ELSE CheckResult(NoMsg, FALSE, <<ip_addr>>, {}, cacheIn)

_is_embargoed_by_ip_NoWhitelistRule(ip_addr, course_id, course_is_embargoed, cacheIn) ==
    LET ip_country == _country_code_from_ip(ip_addr)
        from_course == _from_course_msg(course_id, course_is_embargoed)
    IN  IF ip_addr \in blacklist_ips
        THEN CheckResult(ReasonIpBlacklist(ip_addr, from_course), FALSE, <<>>,
                         {}, cacheIn)
        ELSE IF ip_addr \in whitelist_ips
        THEN CheckResult(NoMsg, FALSE, <<>>, {}, cacheIn)
        ELSE IF ip_country = GeoRaise
        THEN CheckResult(NoMsg, TRUE, <<ip_addr>>, {}, cacheIn)
        ELSE IF course_id # ""
                /\ is_course_embargoed_in_country_list(course_id, ip_country, "blacklist")
        THEN CheckResult(ReasonIpCountry(ip_addr, ip_country, from_course),
                         FALSE, <<ip_addr>>, {}, cacheIn)
        ELSE CheckResult(NoMsg, FALSE, <<ip_addr>>, {}, cacheIn)

_is_embargoed_by_ip_NoBlacklistRule(ip_addr, course_id, course_is_embargoed, cacheIn) ==
    LET ip_country == _country_code_from_ip(ip_addr)
        from_course == _from_course_msg(course_id, course_is_embargoed)
    IN  IF ip_addr \in blacklist_ips
        THEN CheckResult(ReasonIpBlacklist(ip_addr, from_course), FALSE, <<>>,
                         {}, cacheIn)
        ELSE IF ip_addr \in whitelist_ips
        THEN CheckResult(NoMsg, FALSE, <<>>, {}, cacheIn)
        ELSE IF ip_country = GeoRaise
        THEN CheckResult(NoMsg, TRUE, <<ip_addr>>, {}, cacheIn)
        ELSE IF course_id # ""
                /\ ~is_course_embargoed_in_country_list(course_id, ip_country, "whitelist")
        THEN CheckResult(ReasonIpCountry(ip_addr, ip_country, from_course),
                         FALSE, <<ip_addr>>, {}, cacheIn)
        ELSE CheckResult(NoMsg, FALSE, <<ip_addr>>, {}, cacheIn)

\* The cache argument is passed through untouched: every check function has
\* the same shape so that check_access can chain them.
_is_embargoed_by_ip(ip_addr, course_id, course_is_embargoed, cacheIn) ==
    LET ip_country == _country_code_from_ip(ip_addr)
        from_course == _from_course_msg(course_id, course_is_embargoed)
    IN  \* If blacklisted, immediately fail
        IF ip_addr \in blacklist_ips
        THEN CheckResult(ReasonIpBlacklist(ip_addr, from_course), FALSE, <<>>,
                         {}, cacheIn)
        \* If we're white-listed, then allow access
        ELSE IF ip_addr \in whitelist_ips
        THEN CheckResult(NoMsg, FALSE, <<>>, {}, cacheIn)
        \* the lookup itself raises
        ELSE IF ip_country = GeoRaise
        THEN CheckResult(NoMsg, TRUE, <<ip_addr>>, {}, cacheIn)
        ELSE IF course_id # ""
                /\ ~is_course_embargoed_in_country_list(course_id, ip_country, "whitelist")
        THEN CheckResult(ReasonIpCountry(ip_addr, ip_country, from_course),
                         FALSE, <<ip_addr>>, {}, cacheIn)
        ELSE IF course_id # ""
                /\ is_course_embargoed_in_country_list(course_id, ip_country, "blacklist")
        THEN CheckResult(ReasonIpCountry(ip_addr, ip_country, from_course),
                         FALSE, <<ip_addr>>, {}, cacheIn)
        ELSE CheckResult(NoMsg, FALSE, <<ip_addr>>, {}, cacheIn)

_is_embargoed_by_profile_country_NoCache(user, course_id, course_is_embargoed, cacheIn) ==
    LET profile_country ==
            IF profile[user] # None THEN Upper(profile[user]) ELSE ""
        cacheOut == [cacheIn EXCEPT ![user] = profile_country]
        from_course == _from_course_msg(course_id, course_is_embargoed)
        msg == ReasonProfileCountry(unique_id_for_user(user), profile_country,
                                    from_course)
    IN  IF course_id # ""
           /\ ~is_course_embargoed_in_country_list(course_id, profile_country, "whitelist")
        THEN CheckResult(msg, FALSE, <<>>, {user}, cacheOut)
        ELSE IF course_id # ""
                /\ is_course_embargoed_in_country_list(course_id, profile_country, "blacklist")
        THEN CheckResult(msg, FALSE, <<>>, {user}, cacheOut)
        ELSE CheckResult(NoMsg, FALSE, <<>>, {user}, cacheOut)

_is_embargoed_by_profile_country(user, course_id, course_is_embargoed, cacheIn) ==
    LET miss == cacheIn[user] = None
        profile_country ==
            IF ~miss THEN cacheIn[user]
            ELSE IF profile[user] # None THEN Upper(profile[user]) ELSE ""
        cacheOut == IF miss THEN [cacheIn EXCEPT ![user] = profile_country]
                    ELSE cacheIn
        read == IF miss THEN {user} ELSE {}
        from_course == _from_course_msg(course_id, course_is_embargoed)
        msg == ReasonProfileCountry(unique_id_for_user(user), profile_country,
                                    from_course)
    IN  IF course_id # ""
           /\ ~is_course_embargoed_in_country_list(course_id, profile_country, "whitelist")
        THEN CheckResult(msg, FALSE, <<>>, read, cacheOut)
        ELSE IF course_id # ""
                /\ is_course_embargoed_in_country_list(course_id, profile_country, "blacklist")
        THEN CheckResult(msg, FALSE, <<>>, read, cacheOut)
        ELSE CheckResult(NoMsg, FALSE, <<>>, read, cacheOut)

_embargo_redirect_response_NotNone ==
    IF redirect_url # None
    THEN HttpResponseRedirect(redirect_url)
    ELSE HttpResponseForbidden

_embargo_redirect_response ==
    IF redirect_url # None /\ redirect_url # ""
    THEN HttpResponseRedirect(redirect_url)
    ELSE HttpResponseForbidden

\* _log_embargo_reason's _inner, applied to what the check function returned:
\* the messages it logs.
_log_embargo_reason(result) ==
    IF result.raised \/ result.msg = NoMsg THEN <<>>
    ELSE <<[result.msg EXCEPT !.reason = <<"Embargo: ", result.msg.reason>>]>>

\* _inner's return value: True iff the check function gave a reason.
Blocked(result) == ~result.raised /\ result.msg # NoMsg

\* The outcome of check_access: the response, the log, the lookups, the
\* profile reads and the cache afterwards.
Outcome(resp, log, geo, read, cacheOut) ==
    [response |-> resp, logged |-> log, lookups |-> geo, fetched |-> read,
     cache |-> cacheOut]

check_access_Unconditional(user, ip_address, course_key, cacheIn) ==
    LET byIp == _is_embargoed_by_ip(ip_address, course_key, TRUE, cacheIn)
    IN  IF Blocked(byIp)
        THEN Outcome(_embargo_redirect_response, _log_embargo_reason(byIp),
                     byIp.geo, {}, cacheIn)
        ELSE Outcome(NoneResponse, <<>>, byIp.geo, {}, cacheIn)

check_access_ProfileFirst(user, ip_address, course_key, cacheIn) ==
    LET course_is_restricted == is_restricted_course(course_key)
        byProfile == _is_embargoed_by_profile_country(
                         user, course_key, course_is_restricted, cacheIn)
        byIp == _is_embargoed_by_ip(ip_address, course_key,
                                    course_is_restricted, byProfile.cache)
    IN  IF ~course_is_restricted
        THEN Outcome(NoneResponse, <<>>, <<>>, {}, cacheIn)
        ELSE IF Blocked(byProfile)
        THEN Outcome(_embargo_redirect_response,
                     _log_embargo_reason(byProfile), <<>>, byProfile.read,
                     byProfile.cache)
        ELSE IF byIp.raised
        THEN Outcome(Raised, <<>>, byIp.geo, byProfile.read, byProfile.cache)
        ELSE IF Blocked(byIp)
        THEN Outcome(_embargo_redirect_response, _log_embargo_reason(byIp),
                     byIp.geo, byProfile.read, byProfile.cache)
        ELSE Outcome(NoneResponse, <<>>, byIp.geo, byProfile.read,
                     byProfile.cache)

check_access(user, ip_address, course_key, cacheIn) ==
    LET course_is_restricted == is_restricted_course(course_key)
        byIp == _is_embargoed_by_ip(ip_address, course_key,
                                    course_is_restricted, cacheIn)
        byProfile == _is_embargoed_by_profile_country(
                         user, course_key, course_is_restricted, byIp.cache)
    IN  \* a course that does not care about embargoes: implicitly None
        IF ~course_is_restricted
        THEN Outcome(NoneResponse, <<>>, <<>>, {}, cacheIn)
        \* the first check function raises past check_access
        ELSE IF byIp.raised
        THEN Outcome(Raised, <<>>, byIp.geo, {}, byIp.cache)
        ELSE IF Blocked(byIp)
        THEN Outcome(_embargo_redirect_response, _log_embargo_reason(byIp),
                     byIp.geo, {}, byIp.cache)
        ELSE IF Blocked(byProfile)
        THEN Outcome(_embargo_redirect_response,
                     _log_embargo_reason(byProfile), byIp.geo, byProfile.read,
                     byProfile.cache)
        \* all the check functions pass: implicitly None
        ELSE Outcome(NoneResponse, <<>>, byIp.geo, byProfile.read,
                     byProfile.cache)

\* ---- the embargo state machine ----

IpFilters ==
    {f \in [black : SUBSET Ips, white : SUBSET Ips] :
        Cardinality(f.black) + Cardinality(f.white) <= MaxIpEntries}

InitEmbargo ==
    /\ restricted \in SUBSET Courses
    /\ whitelist \in [Courses -> SUBSET Countries]
    /\ blacklist \in [Courses -> SUBSET Countries]
    /\ \E f \in IpFilters : blacklist_ips = f.black /\ whitelist_ips = f.white
    /\ redirect_url \in RedirectSettings
    /\ profile = [u \in Users |-> IF u = "u1" THEN "us" ELSE None]
    /\ cache = [u \in Users |-> None]
    /\ args = NoCall
    /\ response = NoneResponse
    /\ logged = <<>>
    /\ lookups = <<>>
    /\ fetched = {}
    /\ profile_reads = [u \in Users |-> 0]

\* One request passing through the embargo middleware.
CheckAccess(user, ip_address, course_key) ==
    LET out == check_access(user, ip_address, course_key, cache)
    IN  /\ args' = [user |-> user, ip |-> ip_address, course |-> course_key]
        /\ response' = out.response
        /\ logged' = out.logged
        /\ lookups' = out.lookups
        /\ fetched' = out.fetched
        /\ cache' = out.cache
        /\ profile_reads' =
              [u \in Users |->
                  IF u \in out.fetched /\ profile_reads[u] < MaxReads
                  THEN profile_reads[u] + 1 ELSE profile_reads[u]]
        /\ UNCHANGED <<restricted, whitelist, blacklist, blacklist_ips,
                       whitelist_ips, redirect_url, profile>>
        /\ UNCHANGED <<treeVars, gradedVars, laterVars>>

NextEmbargo ==
    \E user \in Users, ip_address \in Ips, course_key \in Courses :
        CheckAccess(user, ip_address, course_key)

\* ---- the profile-country cache over time ----

\* The country codes a profile may hold.
ProfileCodes == {None, "us", "fr"}

\* The configurations the cache is followed under: the IP lists matter to
\* it only through whether the IP predicate blocks, so one blacklisted
\* address at most; any profile countries.
InitCache ==
    /\ restricted \in SUBSET Courses
    /\ whitelist \in [Courses -> SUBSET Countries]
    /\ blacklist \in [Courses -> SUBSET Countries]
    /\ blacklist_ips \in SUBSET {"9.9.9.9"}
    /\ whitelist_ips = {}
    /\ redirect_url = "/embargo"
    /\ profile \in [Users -> ProfileCodes]
    /\ cache = [u \in Users |-> None]
    /\ args = NoCall
    /\ response = NoneResponse
    /\ logged = <<>>
    /\ lookups = <<>>
    /\ fetched = {}
    /\ profile_reads = [u \in Users |-> 0]

\* The user (or an administrator) changes the country of a profile.
SetProfileCountry(user, code) ==
    /\ code # profile[user]
    /\ profile' = [profile EXCEPT ![user] = code]
    /\ UNCHANGED <<restricted, whitelist, blacklist, blacklist_ips,
                   whitelist_ips, redirect_url, cache, args, response, logged,
                   lookups, fetched, profile_reads>>
    /\ UNCHANGED <<treeVars, gradedVars, laterVars>>

NextCache ==
    \/ NextEmbargo
    \/ \E user \in Users, code \in ProfileCodes : SetProfileCountry(user, code)

\* ---- concurrent requests in the profile-country predicate ----

\* Bound of the concurrency model: the requests running at once.
MaxRequests == 2

Requests == 1..MaxRequests
\* The restricted course the concurrent requests are made for.
RaceCourse == "c1"

\* profile.country.code.upper(), or "" without a profile or a country.
profile_country_code(user) ==
    IF profile[user] # None THEN Upper(profile[user]) ELSE ""

\* A cache.set that mixes the value with the one already stored.
cache_set_Torn(c, key, value) ==
    [c EXCEPT ![key] = IF c[key] = None THEN value ELSE "<torn>"]

\* cache.set(key, value): the entry of the key is replaced as a whole.
cache_set(c, key, value) == [c EXCEPT ![key] = value]

RaceIdle ==
    /\ ruser = <<>>
    /\ rpc = <<>>
    /\ rlocal = <<>>
    /\ rmissed = <<>>
    /\ rverdict = <<>>

\* Requests for a restricted course that the IP predicate let pass, about to
\* enter the profile-country predicate; nothing is cached yet.
InitRace ==
    /\ restricted = {RaceCourse}
    /\ whitelist \in [Courses -> SUBSET Countries]
    /\ blacklist \in [Courses -> SUBSET Countries]
    /\ blacklist_ips = {}
    /\ whitelist_ips = {}
    /\ redirect_url = None
    /\ profile \in [Users -> ProfileCodes]
    /\ cache = [u \in Users |-> None]
    /\ args = NoCall
    /\ response = NoneResponse
    /\ logged = <<>>
    /\ lookups = <<>>
    /\ fetched = {}
    /\ profile_reads = [u \in Users |-> 0]
    /\ ruser \in [Requests -> Users]
    /\ rpc = [r \in Requests |-> "get"]
    /\ rlocal = [r \in Requests |-> None]
    /\ rmissed = [r \in Requests |-> FALSE]
    /\ rverdict = [r \in Requests |-> "none"]

\* profile_country = cache.get(cache_key)
CacheGet(r) ==
    /\ rpc[r] = "get"
    /\ rlocal' = [rlocal EXCEPT ![r] = cache[ruser[r]]]
    /\ rmissed' = [rmissed EXCEPT ![r] = cache[ruser[r]] = None]
    /\ rpc' = [rpc EXCEPT ![r] = IF cache[ruser[r]] = None THEN "profile"
                                 ELSE "rules"]
    /\ UNCHANGED <<cache, ruser, rverdict>>
    /\ UNCHANGED <<embargoExceptCache, treeVars, gradedVars, besideRace>>

\* if profile_country is None: the profile is read.
ReadProfile(r) ==
    /\ rpc[r] = "profile"
    /\ rlocal' = [rlocal EXCEPT ![r] = profile_country_code(ruser[r])]
    /\ rpc' = [rpc EXCEPT ![r] = "set"]
    /\ UNCHANGED <<cache, ruser, rmissed, rverdict>>
    /\ UNCHANGED <<embargoExceptCache, treeVars, gradedVars, besideRace>>

\* cache.set(cache_key, profile_country)
CacheSet(r) ==
    /\ rpc[r] = "set"
    /\ cache' = cache_set(cache, ruser[r], rlocal[r])
    /\ rpc' = [rpc EXCEPT ![r] = "rules"]
    /\ UNCHANGED <<ruser, rlocal, rmissed, rverdict>>
    /\ UNCHANGED <<embargoExceptCache, treeVars, gradedVars, besideRace>>

\* The country rules applied to the local profile_country.
ApplyRules(r) ==
    /\ rpc[r] = "rules"
    /\ rverdict' =
          [rverdict EXCEPT ![r] =
              IF \/ ~is_course_embargoed_in_country_list(
                        RaceCourse, rlocal[r], "whitelist")
                 \/ is_course_embargoed_in_country_list(
                        RaceCourse, rlocal[r], "blacklist")
              THEN "blocked" ELSE "allowed"]
    /\ rpc' = [rpc EXCEPT ![r] = "done"]
    /\ UNCHANGED <<cache, ruser, rlocal, rmissed>>
    /\ UNCHANGED <<embargoExceptCache, treeVars, gradedVars, besideRace>>

NextRace ==
    \E r \in Requests :
        CacheGet(r) \/ ReadProfile(r) \/ CacheSet(r) \/ ApplyRules(r)

(***************************************************************************)
(* Part II.  Depth-limited materialization and serialization of the tree.  *)
(***************************************************************************)

\* Bounds of the tree model.
MaxNodes == 4
MaxDepth == 3

Nodes == 1..MaxNodes
\* The course is the root of the tree.
CourseNode == 1
\* The depth a request may ask for; a negative depth never meets the cutoff.
Depths == (-1)..MaxDepth
\* The include_fields query parameter of the server API, split on commas.
IncludeFields == {<<>>, <<"children">>, <<"content">>, <<"graded">>}

\* ---- values of a children attribute or of a serialized key ----
Absent == [kind |-> "absent", items |-> <<>>]       \* no such attribute / key
NoneValue == [kind |-> "none", items |-> <<>>]      \* None
KeysValue(keys) == [kind |-> "keys", items |-> keys]    \* usage keys
NodesValue(nodes) == [kind |-> "nodes", items |-> nodes] \* descriptors / dicts

\* ---- the trees the model ranges over ----

\* The elements of a set of numbers as a sequence, ascending or descending.
SortedSeq(S, ascending) ==
    [k \in 1..Cardinality(S) |->
        CHOOSE x \in S :
            Cardinality({y \in S : IF ascending THEN y < x ELSE y > x}) = k - 1]

\* Every tree on the blocks 1..n rooted at block 1: each other block has one
\* parent, numbered below it; siblings are listed in ascending or descending
\* order.
TreesOn(n) ==
    {[b \in 1..n |-> SortedSeq({i \in 2..n : par[i] = b}, asc)] :
        par \in {f \in [1..n -> 1..n] : \A i \in 2..n : f[i] < i},
        asc \in BOOLEAN}

Trees == TreesOn(MaxNodes)

\* ---- xmodule descriptors (XModuleMixin) ----

\* The children attribute of a freshly loaded descriptor: the usage keys of
\* the children field, which only classes with has_children declare.
FreshChildren ==
    [n \in Nodes |-> IF has_children[n] THEN KeysValue(kids[n]) ELSE Absent]

\* descriptor.get_children(): the child descriptors, in the order of the
\* children field; none for a class without children.
get_children(descriptor) ==
    IF has_children[descriptor] THEN kids[descriptor] ELSE <<>>

\* getattr(content, 'children', None)
getattr_children(attr, content) ==
    IF attr[content].kind = "absent" THEN NoneValue ELSE attr[content]

\* ---- course_api/v0/views.py ----

RECURSIVE fetch_children(_, _, _)
RECURSIVE fetch_children_each(_, _, _, _)

fetch_children_KeepAtCutoff(content_descriptor, depth, attr) ==
    IF ~has_children[content_descriptor] THEN attr
    ELSE IF depth = 0 THEN attr
    ELSE LET cs == get_children(content_descriptor)
         IN  [fetch_children_each(cs, 1, depth - 1, attr)
                 EXCEPT ![content_descriptor] = NodesValue(cs)]

\* fetch_children with children.extend(...) in place of the assignment.
fetch_children_Extends(content_descriptor, depth, attr) ==
    IF ~has_children[content_descriptor] THEN attr
    ELSE IF depth = 0
    THEN [attr EXCEPT ![content_descriptor] = NoneValue]
    ELSE LET cs == get_children(content_descriptor)
             old == IF attr[content_descriptor].kind = "nodes"
                    THEN attr[content_descriptor].items ELSE <<>>
         IN  [fetch_children_each(cs, 1, depth - 1, attr)
                 EXCEPT ![content_descriptor] = NodesValue(old \o cs)]

\* fetch_children changes the descriptors it is given and returns the one it
\* was called with: its result is the children attributes it leaves.
fetch_children(content_descriptor, depth, attr) ==
    IF ~has_children[content_descriptor] THEN attr
    ELSE IF depth = 0
    THEN [attr EXCEPT ![content_descriptor] = NoneValue]
    ELSE LET cs == get_children(content_descriptor)
         IN  [fetch_children_each(cs, 1, depth - 1, attr)
                 EXCEPT ![content_descriptor] = NodesValue(cs)]

\* The list comprehension of fetch_children: the children from the i-th on.
fetch_children_each(cs, i, depth, attr) ==
    IF i > Len(cs) THEN attr
    ELSE fetch_children_each(cs, i + 1, depth,
                             fetch_children(cs[i], depth, attr))

\* ---- course_api/v0/serializers.py ----

RECURSIVE CourseContentSerializer(_, _)

\* ContentWithChildrenSerializer.get_children on a descriptor: a descriptor
\* is no container, so "key in content" raises TypeError, which is passed
\* over, and a None or empty children attribute gives [].
serializer_get_children(attr, content) ==
    LET cs == getattr_children(attr, content)
    IN  IF cs.kind = "none" \/ cs.items = <<>> THEN <<>>
        ELSE [i \in 1..Len(cs.items) |->
                 CourseContentSerializer(attr, cs.items[i])]

\* The serialized content: its id and its children.
CourseContentSerializer(attr, content) ==
    [id |-> content, children |-> serializer_get_children(attr, content)]

\* ---- server_api/courses/views.py ----

\* _serialize_content: the keys that matter here are 'children' and
\* 'content', which only include_fields can add (getattr(..., field, None)).
_serialize_content(content_descriptor, include_fields) ==
    LET included == {include_fields[i] : i \in 1..Len(include_fields)}
    IN  [id |-> content_descriptor,
         children |-> IF "children" \in included
                      THEN getattr_children(FreshChildren, content_descriptor)
                      ELSE Absent,
         content |-> IF "content" \in included THEN NoneValue ELSE Absent]

RECURSIVE _serialize_content_with_children(_, _, _)

_serialize_content_with_children_OffByOne(descriptor, depth, include_fields) ==
    LET data == _serialize_content(descriptor, include_fields)
        cs == get_children(descriptor)
    IN  IF depth >= 0
        THEN [data EXCEPT !.children = NodesValue(
                 [i \in 1..Len(cs) |->
                     _serialize_content_with_children(cs[i], depth - 1,
                                                      include_fields)])]
        ELSE data

_serialize_content_with_children(descriptor, depth, include_fields) ==
    LET data == _serialize_content(descriptor, include_fields)
        cs == get_children(descriptor)
    IN  IF depth > 0
        THEN [data EXCEPT !.children = NodesValue(
                 [i \in 1..Len(cs) |->
                     _serialize_content_with_children(cs[i], depth - 1,
                                                      include_fields)])]
        ELSE data

\* _get_course_data, as far as the content tree goes.
_get_course_data(course_descriptor, depth, include_fields) ==
    IF depth > 0
    THEN LET data == _serialize_content_with_children(course_descriptor, depth,
                                                      include_fields)
         IN  [data EXCEPT !.content = data.children, !.children = Absent]
    ELSE _serialize_content(course_descriptor, include_fields)

\* The views of course_api v0 that read depth, and their default_depth.
CourseApiViews == {"CourseContentList", "CourseContentDetail", "CourseDetail"}
default_depth(view) == IF view = "CourseContentList" THEN 1 ELSE 0

\* ---- the tree state machine ----

NoRequest == [view |-> "none", node |-> 0, depth |-> 0, include_fields |-> <<>>]

\* The tree part of a state in which no course is loaded.
TreeIdle ==
    /\ kids = [n \in Nodes |-> <<>>]
    /\ has_children = [n \in Nodes |-> FALSE]
    /\ children = [n \in Nodes |-> Absent]
    /\ treq = NoRequest
    /\ tres = <<>>

InitTree ==
    /\ kids \in Trees
    /\ has_children \in {h \in [Nodes -> BOOLEAN] :
                            \A n \in Nodes : kids[n] # <<>> => h[n]}
    /\ children = FreshChildren
    /\ treq = NoRequest
    /\ tres = <<>>

\* CourseContentDetail.get_object / CourseDetail.get_object and the
\* serialization of what it returns: the descriptors are loaded for the
\* request, fetch_children attaches the children, the serializer walks them.
ContentDetail(node, depth) ==
    LET attr == fetch_children(node, depth, FreshChildren)
    IN  /\ treq' = [view |-> "content_detail", node |-> node, depth |-> depth,
                    include_fields |-> <<>>]
        /\ children' = attr
        /\ tres' = <<CourseContentSerializer(attr, node)>>
        /\ UNCHANGED <<kids, has_children>>
        /\ UNCHANGED <<embargoVars, gradedVars, laterVars>>

\* CoursesDetail.get of the server API, for a course that exists.
CoursesDetail(depth, include_fields) ==
    /\ treq' = [view |-> "courses_detail", node |-> CourseNode,
                depth |-> depth, include_fields |-> include_fields]
    /\ children' = FreshChildren
    /\ tres' = <<_get_course_data(CourseNode, depth, include_fields)>>
    /\ UNCHANGED <<kids, has_children>>
    /\ UNCHANGED <<embargoVars, gradedVars, laterVars>>

\* CourseContentList.get_queryset and the serialization of the list it
\* returns: the depth parameter, or default_depth when the request has none;
\* fetch_children(child, depth - 1) on each child of the course, in order.
ContentList(given, param) ==
    LET depth == IF given THEN param ELSE default_depth("CourseContentList")
        content == get_children(CourseNode)
        attr == fetch_children_each(content, 1, depth - 1, FreshChildren)
    IN  /\ treq' = [view |-> "content_list", node |-> CourseNode,
                    depth |-> depth, include_fields |-> <<>>]
        /\ children' = attr
        /\ tres' = [i \in 1..Len(content) |->
                       CourseContentSerializer(attr, content[i])]
        /\ UNCHANGED <<kids, has_children>>
        /\ UNCHANGED <<embargoVars, gradedVars, laterVars>>

\* fetch_children called once more, with the same depth, on the descriptor
\* the last call of ContentDetail returned.
FetchChildrenAgain ==
    /\ treq.view = "content_detail"
    /\ LET attr == fetch_children(treq.node, treq.depth, children)
       IN  /\ treq' = [treq EXCEPT !.view = "content_detail_again"]
           /\ children' = attr
           /\ tres' = <<CourseContentSerializer(attr, treq.node)>>
    /\ UNCHANGED <<kids, has_children>>
    /\ UNCHANGED <<embargoVars, gradedVars, laterVars>>

\* fetch_children called once more, with a larger depth, on the descriptor
\* the last call of ContentDetail returned.
FetchChildrenDeeper(depth) ==
    /\ treq.view = "content_detail"
    /\ treq.depth >= 0
    /\ depth > treq.depth
    /\ LET attr == fetch_children(treq.node, depth, children)
       IN  /\ treq' = [treq EXCEPT !.view = "content_detail_deeper",
                                   !.depth = depth]
           /\ children' = attr
           /\ tres' = <<CourseContentSerializer(attr, treq.node)>>
    /\ UNCHANGED <<kids, has_children>>
    /\ UNCHANGED <<embargoVars, gradedVars, laterVars>>

NextTree ==
    \/ \E node \in Nodes, depth \in Depths : ContentDetail(node, depth)
    \/ \E depth \in Depths : FetchChildrenDeeper(depth)
    \/ \E given \in BOOLEAN, param \in Depths : ContentList(given, param)
    \/ FetchChildrenAgain
    \/ \E depth \in Depths, include_fields \in IncludeFields :
          CoursesDetail(depth, include_fields)

\* ---- one fetch_children call, frame by frame ----

\* The frames the interpreter allows before it raises RuntimeError
\* ("maximum recursion depth exceeded"), scaled down.
RecursionLimit == 3

\* A tree with one more edge, from its last block back to the course: a
\* children relation that is no tree.
WithCycle(t) == [t EXCEPT ![MaxNodes] = <<CourseNode>>]

\* The children relations a call may meet.
Shapes == Trees \cup {WithCycle(t) : t \in Trees}

\* The depth handed to the recursive call without the decrement.
child_depth_Same(depth) == depth

\* The depth handed to the recursive call.
child_depth(depth) == depth - 1

\* A frame of fetch_children: its arguments and the position of the list
\* comprehension (0 before the two tests at the top of the function).
Frame(content_descriptor, depth) ==
    [node |-> content_descriptor, depth |-> depth, i |-> 0]

NoCallRequest == [node |-> 0, depth |-> 0]

CallIdle ==
    /\ creq = NoCallRequest
    /\ cstack = <<>>
    /\ cstate = "idle"
    /\ cmaxnest = 0

InitCall ==
    /\ kids \in Shapes
    /\ has_children \in {h \in [Nodes -> BOOLEAN] :
                            \A n \in Nodes : kids[n] # <<>> => h[n]}
    /\ children = FreshChildren
    /\ treq = NoRequest
    /\ tres = <<>>
    /\ CallIdle

\* What is left when the innermost frame returns.
Returned(stack) == SubSeq(stack, 1, Len(stack) - 1)

\* A caller calls fetch_children(node, depth).
CallFetchChildren(node, depth) ==
    /\ cstate = "idle"
    /\ creq' = [node |-> node, depth |-> depth]
    /\ cstack' = <<Frame(node, depth)>>
    /\ cstate' = "running"
    /\ UNCHANGED <<cmaxnest, treeVars, embargoVars, gradedVars, besideCall>>

\* The innermost frame is at the top of the function and returns at once:
\* the descriptor has no children, or the depth is 0 and its children
\* attribute is set to None.
ReturnEarly ==
    /\ cstate = "running"
    /\ LET f == cstack[Len(cstack)]
       IN  /\ f.i = 0
           /\ ~has_children[f.node] \/ f.depth = 0
           /\ children' = IF has_children[f.node]
                          THEN [children EXCEPT ![f.node] = NoneValue]
                          ELSE children
    /\ cstack' = Returned(cstack)
    /\ cstate' = IF Len(cstack) = 1 THEN "returned" ELSE "running"
    /\ UNCHANGED <<creq, cmaxnest, kids, has_children, treq, tres>>
    /\ UNCHANGED <<embargoVars, gradedVars, besideCall>>

\* The innermost frame passes the two tests and starts the list
\* comprehension over get_children().
EnterComprehension ==
    /\ cstate = "running"
    /\ LET f == cstack[Len(cstack)]
       IN  /\ f.i = 0
           /\ has_children[f.node]
           /\ f.depth # 0
           /\ cstack' = [cstack EXCEPT ![Len(cstack)].i = 1]
    /\ UNCHANGED <<creq, cstate, cmaxnest, treeVars>>
    /\ UNCHANGED <<embargoVars, gradedVars, besideCall>>

\* The list comprehension calls fetch_children on the next child.
RecursiveCall ==
    /\ cstate = "running"
    /\ Len(cstack) < RecursionLimit
    /\ LET f == cstack[Len(cstack)]
           cs == get_children(f.node)
       IN  /\ f.i >= 1
           /\ f.i <= Len(cs)
           /\ cstack' = Append([cstack EXCEPT ![Len(cstack)].i = f.i + 1],
                               Frame(cs[f.i], child_depth(f.depth)))
    /\ cmaxnest' = IF Len(cstack) > cmaxnest THEN Len(cstack) ELSE cmaxnest
    /\ UNCHANGED <<creq, cstate, treeVars>>
    /\ UNCHANGED <<embargoVars, gradedVars, besideCall>>

\* The same with no frame left: the interpreter raises RuntimeError, which
\* nothing catches, and the call ends.
RecursionError ==
    /\ cstate = "running"
    /\ Len(cstack) >= RecursionLimit
    /\ LET f == cstack[Len(cstack)]
       IN  f.i >= 1 /\ f.i <= Len(get_children(f.node))
    /\ cstack' = <<>>
    /\ cstate' = "raised"
    /\ UNCHANGED <<creq, cmaxnest, treeVars>>
    /\ UNCHANGED <<embargoVars, gradedVars, besideCall>>

\* The list comprehension is through: the list is assigned to the children
\* attribute and the frame returns.
ReturnFrame ==
    /\ cstate = "running"
    /\ LET f == cstack[Len(cstack)]
           cs == get_children(f.node)
       IN  /\ f.i > Len(cs)
           /\ children' = [children EXCEPT ![f.node] = NodesValue(cs)]
    /\ cstack' = Returned(cstack)
    /\ cstate' = IF Len(cstack) = 1 THEN "returned" ELSE "running"
    /\ UNCHANGED <<creq, cmaxnest, kids, has_children, treq, tres>>
    /\ UNCHANGED <<embargoVars, gradedVars, besideCall>>

\* The steps of a call that is running.
RunCall ==
    \/ ReturnEarly
    \/ EnterComprehension
    \/ RecursiveCall
    \/ RecursionError
    \/ ReturnFrame

NextCall ==
    \/ \E node \in Nodes, depth \in Depths : CallFetchChildren(node, depth)
    \/ RunCall

(***************************************************************************)
(* Part III.  The graded-content filter of the course API.                 *)
(***************************************************************************)

\* Bound of the graded-content model.
MaxBlocks == 3

Blocks == 1..MaxBlocks
Categories == {"sequential", "problem"}
\* The keyword arguments _filter_children is called with: names of keys of
\* the block dict and the values they are compared to (True as "True").
KwargSets ==
    {{}} \cup {{<<"block_type", c>>} : c \in Categories}
         \cup {{<<"category", "problem">>}}
         \cup {{<<"graded", "True">>}}
         \cup {{<<"block_type", "sequential">>, <<"graded", "True">>}}

\* What a traversal has done to the structure so far.
Traversal(exp, pre, loc, vis, raised) ==
    [expanded |-> exp, preserialized |-> pre, located |-> loc,
     visited |-> vis, raised |-> raised]

\* The structure as get_structure returns it.
FreshStructure == Traversal({}, {}, {}, {}, FALSE)

\* node.get(name, None) on a block dict: 'block_type' is a key of every
\* block, 'category' is set by _preserialize_block; 'graded' is a key of the
\* block's 'fields', not of the block.
node_get(st, node, name) ==
    CASE name = "block_type" -> block_type[node]
      [] name = "category" ->
            IF node \in st.preserialized THEN block_type[node] ELSE None
      [] OTHER -> None

\* The loop over kwargs: matched iff every named key has the given value.
matched(st, node, kw) ==
    \A pair \in kw : node_get(st, node, pair[1]) = pair[2]

RECURSIVE _filter_children(_, _, _)
RECURSIVE _filter_children_each(_, _, _, _, _)

\* The result of _filter_children: the list it returns and the traversal.
Filtered(problems, st) == [problems |-> problems, st |-> st]

_filter_children_DescendAfterMatch(node, kw, st) ==
    LET st1 == [st EXCEPT !.visited = @ \cup {node}]
        cs == kids[node]
        ids == {cs[i] : i \in 1..Len(cs)}
        st2 == [st1 EXCEPT !.expanded = @ \cup {node},
                           !.located = @ \cup ids,
                           !.preserialized = @ \cup ids]
        below == _filter_children_each(cs, 1, kw, st2, <<>>)
    IN  IF st.raised THEN Filtered(<<>>, st)
        ELSE IF Len(cs) = 0
        THEN Filtered(IF matched(st, node, kw) THEN <<node>> ELSE <<>>, st1)
        ELSE IF node \in st.expanded
        THEN Filtered(<<>>, [st1 EXCEPT !.raised = TRUE])
        ELSE IF matched(st, node, kw)
        THEN Filtered(<<node>> \o below.problems, below.st)
        ELSE below

_filter_children(node, kw, st) ==
    LET st1 == [st EXCEPT !.visited = @ \cup {node}]
        \* children = fields.get('children', [])
        cs == kids[node]
        ids == {cs[i] : i \in 1..Len(cs)}
        \* Update the node's children with actual nodes instead of BlockKeys
        st2 == [st1 EXCEPT !.expanded = @ \cup {node},
                           !.located = @ \cup ids,
                           !.preserialized = @ \cup ids]
    IN  \* an exception raised earlier in the traversal
        IF st.raised THEN Filtered(<<>>, st)
        ELSE IF matched(st, node, kw) THEN Filtered(<<node>>, st1)
        ELSE IF Len(cs) = 0 THEN Filtered(<<>>, st1)
        \* structure['blocks'][key] with a block dict for key: TypeError
        ELSE IF node \in st.expanded
        THEN Filtered(<<>>, [st1 EXCEPT !.raised = TRUE])
        ELSE _filter_children_each(cs, 1, kw, st2, <<>>)

\* The loop "for child in children: problems += ...", from the i-th child.
_filter_children_each(cs, i, kw, st, problems) ==
    IF i > Len(cs) \/ st.raised THEN Filtered(problems, st)
    ELSE LET r == _filter_children(cs[i], kw, st)
         IN  _filter_children_each(cs, i + 1, kw, r.st,
                                   problems \o r.problems)

\* ---- the graded-content state machine ----

GradedIdle ==
    /\ block_type = <<>>
    /\ graded = <<>>
    /\ expanded = {}
    /\ preserialized = {}
    /\ located = {}
    /\ kwargs = {}
    /\ visited = {}

InitGraded ==
    /\ kids \in TreesOn(MaxBlocks)
    /\ has_children = [b \in Blocks |-> kids[b] # <<>>]
    /\ children = [b \in Blocks |-> Absent]
    /\ treq = NoRequest
    /\ tres = <<>>
    /\ block_type \in [Blocks -> Categories]
    /\ graded \in [Blocks -> BOOLEAN]
    /\ expanded = {}
    /\ preserialized = {}
    /\ located = {}
    /\ kwargs = {}
    /\ visited = {}

\* _filter_children applied to a block of a structure as get_structure
\* returned it.
FilterChildren(node, kw) ==
    LET r == _filter_children(node, kw, FreshStructure)
    IN  /\ treq' = [view |-> "filter_children", node |-> node, depth |-> 0,
                    include_fields |-> <<>>]
        /\ kwargs' = kw
        /\ tres' = <<[problems |-> r.problems, raised |-> r.st.raised]>>
        /\ expanded' = r.st.expanded
        /\ preserialized' = r.st.preserialized
        /\ located' = r.st.located
        /\ visited' = r.st.visited
        /\ UNCHANGED <<kids, has_children, children, block_type, graded>>
        /\ UNCHANGED <<embargoVars, laterVars>>

\* The orders blocks.iteritems() may yield a set of blocks in.
Orders(S) ==
    {o \in [1..Cardinality(S) -> S] :
        \A i, j \in 1..Cardinality(S) : o[i] = o[j] => i = j}

\* The blocks whose fields say graded.
GradedBlocks == {b \in Blocks : graded[b]}

RECURSIVE get_queryset_each(_, _, _, _, _)
\* The second loop of get_queryset, from the i-th graded block:
\* block['children'] = _filter_children(...) and _preserialize_block(block).
get_queryset_each(order, i, kw, st, done) ==
    IF i > Len(order) \/ st.raised THEN Filtered(done, st)
    ELSE LET r == _filter_children(order[i], kw, st)
         IN  get_queryset_each(
                 order, i + 1, kw,
                 IF r.st.raised THEN r.st
                 ELSE [r.st EXCEPT !.preserialized = @ \cup {order[i]}],
                 Append(done, [id |-> order[i], children |-> r.problems]))

\* CourseGradedContent.get_queryset for a course that exists: the graded
\* blocks in the order the blocks mapping yields them, each with the
\* children _filter_children finds for the category.
get_queryset(category, order) ==
    LET located_first ==
            [FreshStructure EXCEPT !.located = {order[i] : i \in 1..Len(order)}]
    IN  get_queryset_each(order, 1, {<<"block_type", category>>},
                          located_first, <<>>)

\* One request of the graded content of the course.
GradedContent(category, order) ==
    LET r == get_queryset(category, order)
    IN  /\ treq' = [view |-> "graded_content", node |-> 0, depth |-> 0,
                    include_fields |-> <<>>]
        /\ kwargs' = {<<"block_type", category>>}
        /\ tres' = <<[graded |-> r.problems, raised |-> r.st.raised]>>
        /\ expanded' = r.st.expanded
        /\ preserialized' = r.st.preserialized
        /\ located' = r.st.located
        /\ visited' = r.st.visited
        /\ UNCHANGED <<kids, has_children, children, block_type, graded>>
        /\ UNCHANGED <<embargoVars, laterVars>>

NextGraded ==
    \/ \E node \in Blocks, kw \in KwargSets : FilterChildren(node, kw)
    \/ \E category \in Categories, order \in Orders(GradedBlocks) :
          GradedContent(category, order)

(***************************************************************************)
(* Part IV.  CourseStructure: from_dict and CourseStructureSerializer.     *)
(***************************************************************************)

\* Bound of the course-structure model: the length of a children list.
MaxChildren == 2

\* The keys of a flat blocks mapping, and the ids a root or a children list
\* may name: "bX" is the id of no block.
StructKeys == {"b1", "b2"}
RefIds == StructKeys \cup {"bX"}

\* The lists of at most n ids.
IdLists(n) == UNION {[1..len -> RefIds] : len \in 0..n}

\* The values d[u'children'] may have: None or a list of ids.
ChildrenValues == {NoneValue} \cup {KeysValue(l) : l \in IdLists(MaxChildren)}

\* The type, display_name, format and graded values of a block.
BlockProfiles ==
    {[block_type |-> "course", display_name |-> "Course", format |-> None,
      graded |-> FALSE],
     [block_type |-> "sequential", display_name |-> "Homework 1",
      format |-> "Homework", graded |-> TRUE],
     [block_type |-> "problem", display_name |-> None, format |-> None,
      graded |-> TRUE]}

\* The dictionaries in the format Block.from_dict documents, for block id.
BlockDicts(id) ==
    {[id |-> id, block_type |-> p.block_type, display_name |-> p.display_name,
      format |-> p.format, graded |-> p.graded, children |-> c] :
        p \in BlockProfiles, c \in ChildrenValues}

\* The dictionaries in the format CourseStructure.from_dict documents.
FlatDicts ==
    {[root |-> r, blocks |-> b] :
        r \in RefIds,
        b \in UNION {{f \in [K -> UNION {BlockDicts(k) : k \in K}] :
                         \A k \in K : f[k].id = k} : K \in SUBSET StructKeys}}

\* ---- common/lib/xmodule/xmodule/modulestore/models.py ----

KeyError == [kind |-> "KeyError"]
NotBuilt == [kind |-> "none"]

\* Block.__init__: the object's __dict__; "children or []".
BlockObject(id, type, display_name, format, is_graded, cs) ==
    [id |-> id, type |-> type,
     children |-> IF cs.kind = "none" THEN KeysValue(<<>>) ELSE cs,
     display_name |-> display_name, format |-> format, graded |-> is_graded]

Block_from_dict_ReversedChildren(d) ==
    IF ~({"id", "block_type", "display_name", "format", "graded", "children"}
            \subseteq DOMAIN d)
    THEN KeyError
    ELSE LET b == BlockObject(d.id, d.block_type, d.display_name, d.format,
                              d.graded, d.children)
             n == Len(b.children.items)
         IN  [b EXCEPT !.children =
                 KeysValue([i \in 1..n |-> b.children.items[n + 1 - i]])]

\* Block.from_dict: d[u'...'] raises KeyError for a key d does not have.
Block_from_dict(d) ==
    IF ~({"id", "block_type", "display_name", "format", "graded", "children"}
            \subseteq DOMAIN d)
    THEN KeyError
    ELSE BlockObject(d.id, d.block_type, d.display_name, d.format, d.graded,
                     d.children)

\* CourseStructure.__init__: the root and a deep copy of the blocks.
CourseStructure(root, blocks) ==
    [kind |-> "structure", root |-> root, blocks |-> blocks]

\* CourseStructure.from_dict: every block is converted, then the structure
\* is constructed; neither the root nor the children are looked up.
CourseStructure_from_dict(d) ==
    LET blocks == [key \in DOMAIN d.blocks |-> Block_from_dict(d.blocks[key])]
    IN  IF \E key \in DOMAIN blocks : blocks[key] = KeyError
        THEN KeyError
        ELSE CourseStructure(d.root, blocks)

\* ---- course_api/v0/serializers.py: CourseStructureSerializer ----

\* get_blocks: serialized[key] = block.__dict__
get_blocks(s) == [key \in DOMAIN s.blocks |-> s.blocks[key]]

CourseStructureSerializer(s) ==
    [kind |-> "data", root |-> s.root, blocks |-> get_blocks(s)]

\* ---- the course-structure state machine ----

StructIdle ==
    /\ flat = <<>>
    /\ structure = NotBuilt
    /\ serialized = NotBuilt
    /\ rebuilt = NotBuilt

InitStruct ==
    /\ flat \in FlatDicts
    /\ structure = NotBuilt
    /\ serialized = NotBuilt
    /\ rebuilt = NotBuilt

\* structure = CourseStructure.from_dict(flat)
FromDict ==
    /\ structure = NotBuilt
    /\ structure' = CourseStructure_from_dict(flat)
    /\ UNCHANGED <<flat, serialized, rebuilt>>
    /\ UNCHANGED exceptStruct

\* CourseStructureSerializer(structure).data
Serialize ==
    /\ structure.kind = "structure"
    /\ serialized = NotBuilt
    /\ serialized' = CourseStructureSerializer(structure)
    /\ UNCHANGED <<flat, structure, rebuilt>>
    /\ UNCHANGED exceptStruct

\* CourseStructure.from_dict(serialized data)
Rebuild ==
    /\ serialized.kind = "data"
    /\ rebuilt = NotBuilt
    /\ rebuilt' = CourseStructure_from_dict(serialized)
    /\ UNCHANGED <<flat, structure, serialized>>
    /\ UNCHANGED exceptStruct

NextStruct == FromDict \/ Serialize \/ Rebuild

(***************************************************************************)
(* Part V.  CourseStructure.__init__ and the objects it copies.            *)
(***************************************************************************)

\* Object ids: the two Blocks the caller made, and for each structure the
\* copies its constructor makes of them.
CallerRefs == {<<"caller", "o1">>, <<"caller", "o2">>}
StructureNames == {"first", "second"}
CopyRef(name, ref) == <<name, ref[2]>>
Refs == CallerRefs \cup {CopyRef(n, r) : n \in StructureNames, r \in CallerRefs}
Free == [kind |-> "free"]

\* A Block object: the attributes a mutation may change.
BlockAttrs(is_graded, cs) == [kind |-> "Block", graded |-> is_graded,
                              children |-> cs]

\* The object ids a mapping refers to.
Range(m) == {m[k] : k \in DOMAIN m}

\* copy.deepcopy(blocks) made for the structure name: every Block of the
\* mapping is copied to a new object, a Block the mapping holds twice is
\* copied once (the memo); the heap and the mapping after the copy.
deepcopy(h, name, blocks) ==
    [heap |-> [r \in Refs |->
                  IF \E o \in Range(blocks) : r = CopyRef(name, o)
                  THEN h[<<"caller", r[2]>>]
                  ELSE h[r]],
     blocks |-> [k \in DOMAIN blocks |-> CopyRef(name, blocks[k])]]

CourseStructure_init_ShallowCopy(h, name, root, blocks) ==
    [heap |-> h,
     structure |-> [kind |-> "structure", root |-> root, blocks |-> blocks]]

\* CourseStructure.__init__(root, blocks): self.blocks = copy.deepcopy(blocks)
CourseStructure_init(h, name, root, blocks) ==
    LET c == deepcopy(h, name, blocks)
    IN  [heap |-> c.heap,
         structure |-> [kind |-> "structure", root |-> root,
                        blocks |-> c.blocks]]

\* A change of a Block object: block.graded = True, or
\* block.children.append(u'b2').
Mutations == {"graded", "children"}

Mutated(b, m) ==
    IF m = "graded" THEN [b EXCEPT !.graded = TRUE]
    ELSE [b EXCEPT !.children = Append(@, "b2")]

\* The changes that change something, each child appended once.
CanMutate(b, m) ==
    IF m = "graded" THEN ~b.graded
    ELSE \A i \in 1..Len(b.children) : b.children[i] # "b2"

\* ---- the ownership state machine ----

OwnIdle ==
    /\ heap = <<>>
    /\ caller_blocks = <<>>
    /\ structures = <<>>
    /\ lastop = "none"

InitOwn ==
    /\ heap = [r \in Refs |->
                 IF r = <<"caller", "o1">> THEN BlockAttrs(FALSE, <<>>)
                 ELSE IF r = <<"caller", "o2">>
                 THEN BlockAttrs(TRUE, <<"b1">>)
                 ELSE Free]
    /\ caller_blocks \in UNION {[K -> CallerRefs] : K \in SUBSET StructKeys}
    /\ structures = [n \in StructureNames |-> NotBuilt]
    /\ lastop = "none"

\* name = CourseStructure(root, blocks) with the caller's mapping.
Construct(name, root) ==
    /\ structures[name] = NotBuilt
    /\ LET c == CourseStructure_init(heap, name, root, caller_blocks)
       IN  /\ heap' = c.heap
           /\ structures' = [structures EXCEPT ![name] = c.structure]
    /\ lastop' = "construct"
    /\ UNCHANGED caller_blocks
    /\ UNCHANGED exceptOwn

\* The caller's blocks[key] = block, for a Block the caller made.
CallerSetItem(key, ref) ==
    /\ IF key \in DOMAIN caller_blocks THEN caller_blocks[key] # ref ELSE TRUE
    /\ caller_blocks' = [k \in DOMAIN caller_blocks \cup {key} |->
                            IF k = key THEN ref ELSE caller_blocks[k]]
    /\ lastop' = "caller"
    /\ UNCHANGED <<heap, structures>>
    /\ UNCHANGED exceptOwn

\* The caller's del blocks[key].
CallerDelItem(key) ==
    /\ key \in DOMAIN caller_blocks
    /\ caller_blocks' = [k \in DOMAIN caller_blocks \ {key} |->
                            caller_blocks[k]]
    /\ lastop' = "caller"
    /\ UNCHANGED <<heap, structures>>
    /\ UNCHANGED exceptOwn

\* The caller changes a Block it made.
CallerMutateBlock(ref, m) ==
    /\ CanMutate(heap[ref], m)
    /\ heap' = [heap EXCEPT ![ref] = Mutated(@, m)]
    /\ lastop' = "caller"
    /\ UNCHANGED <<caller_blocks, structures>>
    /\ UNCHANGED exceptOwn

\* del name.blocks[key]
StructureDelItem(name, key) ==
    /\ structures[name] # NotBuilt
    /\ key \in DOMAIN structures[name].blocks
    /\ structures' = [structures EXCEPT ![name].blocks =
                         [k \in DOMAIN @ \ {key} |-> @[k]]]
    \* a Block nothing refers to any more is freed
    /\ heap' = [r \in Refs |->
                  IF r[1] = name /\ r \notin Range(structures'[name].blocks)
                  THEN Free ELSE heap[r]]
    /\ lastop' = name
    /\ UNCHANGED caller_blocks
    /\ UNCHANGED exceptOwn

\* A change of the Block name.blocks[key].
StructureMutateBlock(name, key, m) ==
    /\ structures[name] # NotBuilt
    /\ key \in DOMAIN structures[name].blocks
    /\ CanMutate(heap[structures[name].blocks[key]], m)
    /\ heap' = [heap EXCEPT ![structures[name].blocks[key]] = Mutated(@, m)]
    /\ lastop' = name
    /\ UNCHANGED <<caller_blocks, structures>>
    /\ UNCHANGED exceptOwn

NextOwn ==
    \/ \E name \in StructureNames : Construct(name, "b1")
    \/ \E key \in StructKeys, ref \in CallerRefs : CallerSetItem(key, ref)
    \/ \E key \in StructKeys : CallerDelItem(key)
    \/ \E ref \in CallerRefs, m \in Mutations : CallerMutateBlock(ref, m)
    \/ \E name \in StructureNames, key \in StructKeys :
          StructureDelItem(name, key)
    \/ \E name \in StructureNames, key \in StructKeys, m \in Mutations :
          StructureMutateBlock(name, key, m)

(***************************************************************************)
(* Part VI.  The depth query parameter.                                    *)
(***************************************************************************)

\* Bound of the depth model: the length of the raw parameter.
MaxLen == 3

\* The characters of a raw depth parameter.
Chars == {"0", "1", "-", " ", "a"}
Digits == {"0", "1"}
\* request.QUERY_PARAMS.get('depth', default): the parameter may be absent.
NoParam == <<"<absent>">>
RawDepths == {NoParam} \cup UNION {[1..n -> Chars] : n \in 0..MaxLen}

ValueError == [kind |-> "ValueError", value |-> 0]
IntValue(n) == [kind |-> "int", value |-> n]

RECURSIVE Strip(_)
\* str.strip(): int() ignores leading and trailing whitespace.
Strip(s) ==
    IF s = <<>> THEN s
    ELSE IF Head(s) = " " THEN Strip(Tail(s))
    ELSE IF s[Len(s)] = " " THEN Strip(SubSeq(s, 1, Len(s) - 1))
    ELSE s

DigitValue(c) == IF c = "1" THEN 1 ELSE 0

RECURSIVE Decimal(_)
\* The number a string of digits stands for.
Decimal(s) ==
    IF s = <<>> THEN 0
    ELSE 10 * Decimal(SubSeq(s, 1, Len(s) - 1)) + DigitValue(s[Len(s)])

AllDigits(s) == s # <<>> /\ \A i \in 1..Len(s) : s[i] \in Digits

\* int(s) for a string: optional whitespace around an optional sign and at
\* least one digit; anything else raises ValueError.
int(s) ==
    LET t == Strip(s)
    IN  IF t # <<>> /\ Head(t) = "-"
        THEN IF AllDigits(Tail(t)) THEN IntValue(0 - Decimal(Tail(t)))
             ELSE ValueError
        ELSE IF AllDigits(t) THEN IntValue(Decimal(t)) ELSE ValueError


HttpStatus(code, d) == [status |-> code, depth |-> d, exception |-> None]
\* An exception no handler catches: the request ends with it (a server
\* error, 500, where the exception is not passed on to the caller).
Unhandled(e) == [status |-> 500, depth |-> 0, exception |-> e.kind]

\* CourseContentMixin.depth: ValueError becomes ParseError, which the
\* framework answers with 400.
depth(view, raw) ==
    LET n == IF raw = NoParam THEN IntValue(default_depth(view)) ELSE int(raw)
    IN  IF n = ValueError THEN HttpStatus(400, 0) ELSE HttpStatus(200, n.value)

\* CoursesDetail.get of the server API: depth_int = int(depth), in no try.
CoursesDetail_get(raw) ==
    LET depth_int == IF raw = NoParam THEN IntValue(0) ELSE int(raw)
    IN  IF depth_int = ValueError THEN Unhandled(ValueError)
        ELSE HttpStatus(200, depth_int.value)

\* ---- the depth state machine ----

NoDepthRequest == [view |-> "none", raw |-> NoParam]

DepthIdle ==
    /\ dreq = NoDepthRequest
    /\ dres = HttpStatus(0, 0)

\* A request to a course_api v0 view for a course that exists.
CourseApiRequest(view, raw) ==
    /\ dreq' = [view |-> view, raw |-> raw]
    /\ dres' = depth(view, raw)
    /\ UNCHANGED exceptDepth

\* A request to CoursesDetail of the server API for a course that exists.
ServerCoursesDetail(raw) ==
    /\ dreq' = [view |-> "CoursesDetail", raw |-> raw]
    /\ dres' = CoursesDetail_get(raw)
    /\ UNCHANGED exceptDepth

NextDepth ==
    \/ \E view \in CourseApiViews, raw \in RawDepths :
          CourseApiRequest(view, raw)
    \/ \E raw \in RawDepths : ServerCoursesDetail(raw)

(***************************************************************************)
(* Part VII.  ApiKeyHeaderPermission.                                      *)
(***************************************************************************)

\* A setting that is not defined, a key request.META does not have.
Unset == "<unset>"
ApiKeys == {"", "k1", "k2"}
\* settings.EDX_API_KEY: not defined, None, or a key.
KeySettings == {Unset, None} \cup ApiKeys
\* request.META: HTTP_X_EDX_API_KEY is the header or None (META.get), and
\* 'headers' is missing or a dictionary whose X-Edx-Api-Key is a key or None.
Metas ==
    [HTTP_X_EDX_API_KEY : {None} \cup ApiKeys,
     headers : {Unset, None} \cup ApiKeys]
NoMeta == [HTTP_X_EDX_API_KEY |-> Unset, headers |-> Unset]

has_permission_DebugAllowsAll(debug_enabled, key_setting, meta) ==
    LET api_key == IF key_setting = Unset THEN None ELSE key_setting
        header_key == IF meta.HTTP_X_EDX_API_KEY # None
                      THEN meta.HTTP_X_EDX_API_KEY
                      ELSE meta.headers
    IN  IF debug_enabled THEN TRUE
        ELSE IF api_key = None THEN FALSE
        ELSE IF header_key \in {Unset, None} THEN FALSE
        ELSE header_key = api_key

\* ApiKeyHeaderPermission.has_permission
has_permission(debug_enabled, key_setting, meta) ==
    LET \* getattr(settings, "EDX_API_KEY", None)
        api_key == IF key_setting = Unset THEN None ELSE key_setting
    IN  \* DEBUG mode rules over all else
        IF debug_enabled /\ api_key = None THEN TRUE
        \* If we're not DEBUG, we need a local api key
        ELSE IF api_key = None THEN FALSE
        ELSE IF meta.HTTP_X_EDX_API_KEY = None
        THEN \* request.META['headers']: KeyError returns False
             IF meta.headers = Unset THEN FALSE
             ELSE IF meta.headers = None THEN FALSE
             ELSE meta.headers = api_key
        ELSE meta.HTTP_X_EDX_API_KEY = api_key

\* ---- the permission state machine ----

PermIdle ==
    /\ DEBUG = FALSE
    /\ EDX_API_KEY = Unset
    /\ META = NoMeta
    /\ permitted = FALSE

InitPerm ==
    /\ DEBUG \in BOOLEAN
    /\ EDX_API_KEY \in KeySettings
    /\ META = NoMeta
    /\ permitted = FALSE

\* The permission check of a request to a view that has this permission.
CheckPermission(meta) ==
    /\ META' = meta
    /\ permitted' = has_permission(DEBUG, EDX_API_KEY, meta)
    /\ UNCHANGED <<DEBUG, EDX_API_KEY>>
    /\ UNCHANGED exceptPerm

NextPerm == \E meta \in Metas : CheckPermission(meta)

(***************************************************************************)
(* Part VIII.  Course groups of the server API.                            *)
(***************************************************************************)

\* The courses and groups that exist, and the ids a request may name.
ExistingCourses == {"c1", "c2"}
CourseIds == ExistingCourses \cup {"cX"}
ExistingGroups == {"g1", "g2"}
GroupIds == ExistingGroups \cup {"gX"}
Methods == {"POST", "GET", "DELETE"}

\* course_exists(course_id)
course_exists(course_id) == course_id \in ExistingCourses

\* Group.objects.get(id=group_id) finds a group.
group_exists(group_id) == group_id \in ExistingGroups

\* A Response with a status; a request that ends with an exception no
\* handler catches.
GroupResponse(code, rel) ==
    [status |-> code, exception |-> None, relationships |-> rel]
GroupUnhandled(e, rel) ==
    [status |-> 500, exception |-> e, relationships |-> rel]

CoursesGroupsList_post_AlwaysCreates(rel, course_id, group_id) ==
    IF ~course_exists(course_id) THEN GroupResponse(404, rel)
    ELSE IF ~group_exists(group_id) THEN GroupResponse(404, rel)
    ELSE GroupResponse(201, [rel EXCEPT ![<<course_id, group_id>>] = @ + 1])

\* CoursesGroupsList.post
CoursesGroupsList_post(rel, course_id, group_id) ==
    LET rows == rel[<<course_id, group_id>>]
    IN  IF ~course_exists(course_id) THEN GroupResponse(404, rel)
        ELSE IF ~group_exists(group_id) THEN GroupResponse(404, rel)
        \* CourseGroupRelationship.objects.get(...)
        ELSE IF rows > 1 THEN GroupUnhandled("MultipleObjectsReturned", rel)
        ELSE IF rows = 0
        THEN GroupResponse(201, [rel EXCEPT ![<<course_id, group_id>>] = 1])
        ELSE GroupResponse(409, rel)

\* CoursesGroupsDetail.get
CoursesGroupsDetail_get(rel, course_id, group_id) ==
    LET rows == rel[<<course_id, group_id>>]
    IN  IF ~course_exists(course_id) THEN GroupResponse(404, rel)
        ELSE IF ~group_exists(group_id) THEN GroupResponse(404, rel)
        ELSE IF rows > 1 THEN GroupUnhandled("MultipleObjectsReturned", rel)
        ELSE IF rows = 0 THEN GroupResponse(404, rel)
        ELSE GroupResponse(200, rel)

CoursesGroupsDetail_delete_KeepsRow(rel, course_id, group_id) ==
    GroupResponse(204, rel)

\* CoursesGroupsDetail.delete: ObjectDoesNotExist is passed over.
CoursesGroupsDetail_delete(rel, course_id, group_id) ==
    LET rows == rel[<<course_id, group_id>>]
    IN  IF ~course_exists(course_id) THEN GroupResponse(204, rel)
        ELSE IF ~group_exists(group_id) THEN GroupResponse(204, rel)
        ELSE IF rows > 1 THEN GroupUnhandled("MultipleObjectsReturned", rel)
        ELSE IF rows = 0 THEN GroupResponse(204, rel)
        ELSE GroupResponse(204, [rel EXCEPT ![<<course_id, group_id>>] = 0])

\* ---- the course-groups state machine ----

NoGroupRequest ==
    [method |-> "none", course_id |-> None, group_id |-> None, had |-> 0]
NoGroupResponse == [status |-> 0, exception |-> None]

GroupIdle ==
    /\ relationships = <<>>
    /\ rreq = NoGroupRequest
    /\ rres = NoGroupResponse
    /\ rbefore = <<>>
    /\ rprev = NoGroupRequest

\* No relationship has been made yet.
InitGroup ==
    /\ relationships = [pair \in CourseIds \X GroupIds |-> 0]
    /\ rreq = NoGroupRequest
    /\ rres = NoGroupResponse
    /\ rbefore = relationships
    /\ rprev = NoGroupRequest

\* POST /api/courses/{course_id}/groups with group_id in the data
PostGroup(course_id, group_id) ==
    LET out == CoursesGroupsList_post(relationships, course_id, group_id)
    IN  /\ rreq' = [method |-> "POST", course_id |-> course_id,
                    group_id |-> group_id,
                    had |-> relationships[<<course_id, group_id>>]]
        /\ rres' = [status |-> out.status, exception |-> out.exception]
        /\ relationships' = out.relationships
        /\ rbefore' = relationships
        /\ rprev' = rreq
        /\ UNCHANGED exceptGroup

\* GET /api/courses/{course_id}/groups/{group_id}
GetGroup(course_id, group_id) ==
    LET out == CoursesGroupsDetail_get(relationships, course_id, group_id)
    IN  /\ rreq' = [method |-> "GET", course_id |-> course_id,
                    group_id |-> group_id,
                    had |-> relationships[<<course_id, group_id>>]]
        /\ rres' = [status |-> out.status, exception |-> out.exception]
        /\ relationships' = out.relationships
        /\ rbefore' = relationships
        /\ rprev' = rreq
        /\ UNCHANGED exceptGroup

\* DELETE /api/courses/{course_id}/groups/{group_id}
DeleteGroup(course_id, group_id) ==
    LET out == CoursesGroupsDetail_delete(relationships, course_id, group_id)
    IN  /\ rreq' = [method |-> "DELETE", course_id |-> course_id,
                    group_id |-> group_id,
                    had |-> relationships[<<course_id, group_id>>]]
        /\ rres' = [status |-> out.status, exception |-> out.exception]
        /\ relationships' = out.relationships
        /\ rbefore' = relationships
        /\ rprev' = rreq
        /\ UNCHANGED exceptGroup

NextGroup ==
    \E course_id \in CourseIds, group_id \in GroupIds :
        \/ PostGroup(course_id, group_id)
        \/ GetGroup(course_id, group_id)
        \/ DeleteGroup(course_id, group_id)

(***************************************************************************)
(* Part IX.  BlockData and EditInfo of the split modulestore.              *)
(***************************************************************************)

\* The keys of a stored block and of its edit_info; a stored mapping may
\* hold other keys as well.
BlockKeys == {"fields", "block_type", "definition", "defaults", "edit_info"}
EditKeys == {"previous_version", "update_version", "source_version",
             "edited_on", "edited_by"}
StoredBlockKeys == BlockKeys \cup {"published"}
StoredEditKeys == EditKeys \cup {"original_usage"}

\* The dict {} where it is a value.
EmptyDict == "{}"
\* The dict {} where it is a mapping that is looked into.
NoKeys == [k \in {} |-> None]

\* The stored edit_info mappings: any of the keys, each with a value.
StoredEditInfos ==
    UNION {[D -> {"e1"}] : D \in SUBSET StoredEditKeys}

\* The stored block mappings: any of the keys, each with a value.
StoredBlocks ==
    {[k \in D |->
         CASE k = "fields" -> f
           [] k = "defaults" -> d
           [] k = "block_type" -> "problem"
           [] k = "definition" -> "def1"
           [] k = "edit_info" -> e
           [] OTHER -> "p1"] :
        D \in SUBSET StoredBlockKeys, e \in StoredEditInfos,
        f \in {EmptyDict, "{a: 1}"}, d \in {EmptyDict, "{a: 2}"}}

\* dict.get(key, default)
get(d, key, default) == IF key \in DOMAIN d THEN d[key] ELSE default

\* EditInfo.from_storable: the attributes it sets.
EditInfo_from_storable(edit_info) ==
    [previous_version |-> get(edit_info, "previous_version", None),
     update_version |-> get(edit_info, "update_version", None),
     source_version |-> get(edit_info, "source_version", None),
     edited_on |-> get(edit_info, "edited_on", None),
     edited_by |-> get(edit_info, "edited_by", None)]

\* EditInfo.__init__
EditInfo(edit_info) ==
    LET self == EditInfo_from_storable(edit_info)
    IN  [previous_version |-> self.previous_version,
         update_version |-> self.update_version,
         source_version |-> self.source_version,
         edited_on |-> self.edited_on,
         edited_by |-> self.edited_by,
         original_usage |-> None,
         original_usage_version |-> None,
         _subtree_edited_on |-> None,
         _subtree_edited_by |-> None]

\* EditInfo.to_storable
EditInfo_to_storable(self) ==
    [previous_version |-> self.previous_version,
     update_version |-> self.update_version,
     source_version |-> self.source_version,
     edited_on |-> self.edited_on,
     edited_by |-> self.edited_by]

\* BlockData.from_storable: the attributes it sets.
BlockData_from_storable(stored) ==
    [fields |-> get(stored, "fields", EmptyDict),
     block_type |-> get(stored, "block_type", None),
     definition |-> get(stored, "definition", None),
     defaults |-> get(stored, "defaults", EmptyDict),
     edit_info |-> EditInfo(get(stored, "edit_info", NoKeys))]

\* BlockData.__init__
BlockData(block_dict) ==
    LET self == BlockData_from_storable(block_dict)
    IN  [fields |-> self.fields,
         block_type |-> self.block_type,
         definition |-> self.definition,
         defaults |-> self.defaults,
         edit_info |-> self.edit_info,
         definition_loaded |-> FALSE]

\* to_storable with the lazy-load marker written out as well.
BlockData_to_storable_WithLoaded(self) ==
    [fields |-> self.fields,
     block_type |-> self.block_type,
     definition |-> self.definition,
     defaults |-> self.defaults,
     edit_info |-> EditInfo_to_storable(self.edit_info),
     definition_loaded |-> self.definition_loaded]

\* BlockData.to_storable
BlockData_to_storable(self) ==
    [fields |-> self.fields,
     block_type |-> self.block_type,
     definition |-> self.definition,
     defaults |-> self.defaults,
     edit_info |-> EditInfo_to_storable(self.edit_info)]

BlockIdle ==
    /\ bd_stored = NoKeys
    /\ bd_block = NoKeys
    /\ bd_storable = NoKeys
    /\ bd_again = NoKeys
    /\ bd_pc = "idle"

InitBlock ==
    /\ bd_stored \in StoredBlocks
    /\ bd_block = NoKeys
    /\ bd_storable = NoKeys
    /\ bd_again = NoKeys
    /\ bd_pc = "stored"

\* BlockData(stored)
Build ==
    /\ bd_pc = "stored"
    /\ bd_block' = BlockData(bd_stored)
    /\ bd_pc' = "built"
    /\ UNCHANGED <<bd_stored, bd_storable, bd_again, exceptBlock>>

\* The modulestore loads the definition and fills in what is computed
\* lazily: none of it is stored.
LoadDefinition(usage, edited_on) ==
    /\ bd_pc = "built"
    /\ ~bd_block.definition_loaded
    /\ bd_block' = [bd_block EXCEPT
                       !.definition_loaded = TRUE,
                       !.edit_info.original_usage = usage,
                       !.edit_info._subtree_edited_on = edited_on]
    /\ UNCHANGED <<bd_stored, bd_storable, bd_again, bd_pc, exceptBlock>>

\* block.to_storable()
ToStorable ==
    /\ bd_pc = "built"
    /\ bd_storable' = BlockData_to_storable(bd_block)
    /\ bd_pc' = "serialized"
    /\ UNCHANGED <<bd_stored, bd_block, bd_again, exceptBlock>>

\* BlockData(block.to_storable())
BuildAgain ==
    /\ bd_pc = "serialized"
    /\ bd_again' = BlockData(bd_storable)
    /\ bd_pc' = "rebuilt"
    /\ UNCHANGED <<bd_stored, bd_block, bd_storable, exceptBlock>>

NextBlock ==
    \/ Build
    \/ \E usage \in {None, "u1"}, edited_on \in {None, "t1"} :
          LoadDefinition(usage, edited_on)
    \/ ToStorable
    \/ BuildAgain

(***************************************************************************)
(* Part X.  Course roles and the forum moderator role (server API).        *)
(***************************************************************************)

\* _manage_role's supported_roles and forum_moderator_roles.
supported_roles == {"instructor", "staff", "observer", "assistant"}
forum_moderator_roles == {"instructor", "staff", "assistant"}
\* The roles a caller may name, one of them not supported.
RoleNames == supported_roles \cup {"beta"}
RoleActions == {"allow", "revoke"}

\* The role state of one user in one course: the CourseAccessRole rows per
\* role and whether the user has the forum role Moderator.
RoleState(rows, moderator, raised) ==
    [rows |-> rows, moderator |-> moderator, raised |-> raised]

\* instructor.access.revoke_access: the user's rows of the role are removed.
revoke_access(rows, role) == [rows EXCEPT ![role] = 0]

\* instructor.access.update_forum_role for FORUM_ROLE_MODERATOR.
update_forum_role(moderator, action) ==
    IF action = "allow" THEN TRUE
    ELSE IF action = "revoke" THEN FALSE
    ELSE moderator

\* UserBasedRole(user, role).courses_with_role(), united over the three
\* moderating roles and filtered by the course: the number of rows.
moderating_rows(rows) ==
    rows["instructor"] + rows["staff"] + rows["assistant"]

\* _manage_role that revokes the forum role without looking at the roles
\* that remain.
_manage_role_ForgetsOtherRoles(rows, moderator, role, action) ==
    IF role \notin supported_roles THEN RoleState(rows, moderator, TRUE)
    ELSE IF action = "allow"
    THEN RoleState(IF rows[role] = 0 THEN [rows EXCEPT ![role] = 1] ELSE rows,
                   IF role \in forum_moderator_roles
                   THEN update_forum_role(moderator, "allow") ELSE moderator,
                   FALSE)
    ELSE IF action = "revoke"
    THEN RoleState(revoke_access(rows, role),
                   IF role \in forum_moderator_roles
                   THEN update_forum_role(moderator, "revoke") ELSE moderator,
                   FALSE)
    ELSE RoleState(rows, moderator, FALSE)

_manage_role(rows, moderator, role, action) ==
    IF role \notin supported_roles
    THEN \* raise ValueError
         RoleState(rows, moderator, TRUE)
    ELSE IF action = "allow"
    THEN LET existing_role == rows[role]
         IN  RoleState(IF existing_role = 0
                       THEN [rows EXCEPT ![role] = @ + 1] ELSE rows,
                       IF role \in forum_moderator_roles
                       THEN update_forum_role(moderator, "allow")
                       ELSE moderator,
                       FALSE)
    ELSE IF action = "revoke"
    THEN LET left == revoke_access(rows, role)
         IN  RoleState(left,
                       IF role \in forum_moderator_roles
                          /\ moderating_rows(left) = 0
                       THEN update_forum_role(moderator, "revoke")
                       ELSE moderator,
                       FALSE)
    ELSE RoleState(rows, moderator, FALSE)

NoRoleRequest == [role |-> None, action |-> None]

RoleIdle ==
    /\ access_roles = <<>>
    /\ forum_moderator = FALSE
    /\ mreq = NoRoleRequest
    /\ mres = "none"
    /\ mbefore = <<>>

\* A user without roles in the course.
InitRole ==
    /\ access_roles = [r \in supported_roles |-> 0]
    /\ forum_moderator = FALSE
    /\ mreq = NoRoleRequest
    /\ mres = "none"
    /\ mbefore = RoleState(access_roles, forum_moderator, FALSE)

\* One call of _manage_role for the user and the course.
ManageRole(role, action) ==
    LET out == _manage_role(access_roles, forum_moderator, role, action)
    IN  /\ mreq' = [role |-> role, action |-> action]
        /\ mres' = IF out.raised THEN "ValueError" ELSE "returned"
        /\ access_roles' = out.rows
        /\ forum_moderator' = out.moderator
        /\ mbefore' = RoleState(access_roles, forum_moderator, FALSE)
        /\ UNCHANGED exceptRole

NextRole ==
    \E role \in RoleNames, action \in RoleActions : ManageRole(role, action)

(***************************************************************************)
(* Part XI.  Enrolling a user in a course (server API).                    *)
(***************************************************************************)

\* The User table: the ids that exist and the email of each.
user_email == <<"ann@example.com", "bob@example.com">>
\* The ids and emails a payload may carry, one of each unknown.
PostUserIds == DOMAIN user_email \cup {Len(user_email) + 1}
PostEmails == {user_email[i] : i \in DOMAIN user_email}
                  \cup {"pending@example.com"}
PostKeys == {"user_id", "email", "allow_pending"}

\* request.DATA: the keys it carries and their values (a key it does not
\* carry has the first value of its kind).
Payloads ==
    {d \in [keys : SUBSET PostKeys, user_id : PostUserIds,
            email : PostEmails, allow_pending : BOOLEAN] :
        /\ "user_id" \notin d.keys => d.user_id = 1
        /\ "email" \notin d.keys => d.email = user_email[1]
        /\ "allow_pending" \notin d.keys => d.allow_pending = FALSE}

\* What a view method hands back: a Response with a status, or None when
\* it runs off its end.
Response(status) == [returned |-> "Response", status |-> status]
ReturnsNone == [returned |-> "None", status |-> 0]

\* User.objects.get(id=...) and User.objects.get(email=...): whether the
\* lookup raises ObjectDoesNotExist.
UserWithId(user_id) == user_id \in DOMAIN user_email
UserWithEmail(email) == \E i \in DOMAIN user_email : user_email[i] = email

\* The outcome of post: the value returned and the two tables after it.
PostOutcome(returned, enrolled, allowed) ==
    [response |-> returned, enrollments |-> enrolled,
     enrollment_allowed |-> allowed]

\* CoursesUsersList.post, branch by branch.
post(course_id, DATA, enrolled, allowed) ==
    IF ~course_exists(course_id)
    THEN PostOutcome(Response(404), enrolled, allowed)
    ELSE IF "user_id" \in DATA.keys
    THEN IF ~UserWithId(DATA.user_id)
         THEN PostOutcome(Response(404), enrolled, allowed)
         ELSE PostOutcome(Response(201),
                          enrolled \cup {<<DATA.user_id, course_id>>},
                          allowed)
    ELSE IF "email" \in DATA.keys
    THEN IF UserWithEmail(DATA.email)
         THEN \* the try block ends and no statement follows it
              PostOutcome(ReturnsNone, enrolled, allowed)
         ELSE IF "allow_pending" \in DATA.keys /\ DATA.allow_pending
         THEN PostOutcome(Response(201), enrolled,
                          allowed \cup {<<DATA.email, course_id>>})
         ELSE PostOutcome(Response(400), enrolled, allowed)
    ELSE PostOutcome(Response(400), enrolled, allowed)

NoPost == [course_id |-> None, keys |-> {}, user_id |-> 0, email |-> None,
           allow_pending |-> FALSE]

EnrollIdle ==
    /\ enrollments = {}
    /\ enrollment_allowed = {}
    /\ ureq = NoPost
    /\ ures = ReturnsNone

\* Nobody enrolled, nobody pre-enrolled.
InitEnroll ==
    /\ enrollments = {}
    /\ enrollment_allowed = {}
    /\ ureq = NoPost
    /\ ures = ReturnsNone

\* One POST /api/courses/{course_id}/users.
Post(course_id, DATA) ==
    LET out == post(course_id, DATA, enrollments, enrollment_allowed)
    IN  /\ ureq' = [course_id |-> course_id, keys |-> DATA.keys,
                    user_id |-> DATA.user_id, email |-> DATA.email,
                    allow_pending |-> DATA.allow_pending]
        /\ ures' = out.response
        /\ enrollments' = out.enrollments
        /\ enrollment_allowed' = out.enrollment_allowed
        /\ UNCHANGED exceptEnroll

NextEnroll ==
    \E course_id \in CourseIds, DATA \in Payloads : Post(course_id, DATA)

(***************************************************************************)
(* The specifications: one per subsystem, the other left idle.             *)
(***************************************************************************)

EmbargoIdle ==
    /\ restricted = {}
    /\ whitelist = [c \in Courses |-> {}]
    /\ blacklist = [c \in Courses |-> {}]
    /\ blacklist_ips = {}
    /\ whitelist_ips = {}
    /\ redirect_url = None
    /\ profile = [u \in Users |-> None]
    /\ cache = [u \in Users |-> None]
    /\ args = NoCall
    /\ response = NoneResponse
    /\ logged = <<>>
    /\ lookups = <<>>
    /\ fetched = {}
    /\ profile_reads = [u \in Users |-> 0]

\* The later subsystems with nothing loaded.
MiddleIdle == StructIdle /\ OwnIdle /\ DepthIdle /\ PermIdle /\ GroupIdle

\* The subsystems modelled last with nothing loaded.
NewerIdle == RaceIdle /\ CallIdle /\ BlockIdle /\ RoleIdle /\ EnrollIdle

LaterIdle == MiddleIdle /\ NewerIdle

Init == InitEmbargo /\ TreeIdle /\ GradedIdle /\ LaterIdle

Next == NextEmbargo

Spec == Init /\ [][Next]_vars

InitCacheSpec == InitCache /\ TreeIdle /\ GradedIdle /\ LaterIdle

SpecCache == InitCacheSpec /\ [][NextCache]_vars

InitRaceSpec ==
    /\ InitRace /\ TreeIdle /\ GradedIdle /\ MiddleIdle
    /\ CallIdle /\ BlockIdle /\ RoleIdle /\ EnrollIdle

SpecRace == InitRaceSpec /\ [][NextRace]_vars

InitCallSpec ==
    /\ InitCall /\ EmbargoIdle /\ GradedIdle /\ MiddleIdle
    /\ RaceIdle /\ BlockIdle /\ RoleIdle /\ EnrollIdle

\* A call that is running is run on: the interpreter executes it to its end.
SpecCall == InitCallSpec /\ [][NextCall]_vars /\ WF_vars(RunCall)

InitTreeSpec == InitTree /\ EmbargoIdle /\ GradedIdle /\ LaterIdle

SpecTree == InitTreeSpec /\ [][NextTree]_vars

InitGradedSpec == InitGraded /\ EmbargoIdle /\ LaterIdle

SpecGraded == InitGradedSpec /\ [][NextGraded]_vars

\* The first three subsystems with nothing loaded.
EarlierIdle == EmbargoIdle /\ TreeIdle /\ GradedIdle

InitStructSpec ==
    /\ InitStruct /\ EarlierIdle /\ OwnIdle /\ DepthIdle /\ PermIdle /\ GroupIdle
    /\ NewerIdle

SpecStruct == InitStructSpec /\ [][NextStruct]_vars

InitOwnSpec ==
    /\ InitOwn /\ EarlierIdle /\ StructIdle /\ DepthIdle /\ PermIdle /\ GroupIdle
    /\ NewerIdle

SpecOwn == InitOwnSpec /\ [][NextOwn]_vars

InitDepthSpec ==
    /\ DepthIdle /\ EarlierIdle /\ StructIdle /\ OwnIdle /\ PermIdle /\ GroupIdle
    /\ NewerIdle

SpecDepth == InitDepthSpec /\ [][NextDepth]_vars

InitPermSpec ==
    /\ InitPerm /\ EarlierIdle /\ StructIdle /\ OwnIdle /\ DepthIdle /\ GroupIdle
    /\ NewerIdle

SpecPerm == InitPermSpec /\ [][NextPerm]_vars

InitGroupSpec ==
    /\ InitGroup /\ EarlierIdle /\ StructIdle /\ OwnIdle /\ DepthIdle /\ PermIdle
    /\ NewerIdle

SpecGroup == InitGroupSpec /\ [][NextGroup]_vars

InitBlockSpec ==
    /\ InitBlock /\ EarlierIdle /\ MiddleIdle
    /\ RaceIdle /\ CallIdle /\ RoleIdle /\ EnrollIdle

SpecBlock == InitBlockSpec /\ [][NextBlock]_vars

InitRoleSpec ==
    /\ InitRole /\ EarlierIdle /\ MiddleIdle
    /\ RaceIdle /\ CallIdle /\ BlockIdle /\ EnrollIdle

SpecRole == InitRoleSpec /\ [][NextRole]_vars

InitEnrollSpec ==
    /\ InitEnroll /\ EarlierIdle /\ MiddleIdle
    /\ RaceIdle /\ CallIdle /\ BlockIdle /\ RoleIdle

SpecEnroll == InitEnrollSpec /\ [][NextEnroll]_vars

(***************************************************************************)
(* Properties of the embargo access check.                                 *)
(***************************************************************************)

Called == args # NoCall
IsBlock(resp) == resp.kind \in {"redirect", "forbidden"}
\* The reasons logged by the last call, without the "Embargo: " prefix.
LoggedReasons == [i \in 1..Len(logged) |-> logged[i].reason[2]]
\* The IP of the last call is on neither IP list and its lookup succeeds.
PlainIp ==
    /\ args.ip \notin blacklist_ips
    /\ args.ip \notin whitelist_ips
    /\ _country_code_from_ip(args.ip) # GeoRaise
\* What the profile-country predicate says for the user of the last call,
\* given the cache the call left.
ProfileVerdict ==
    _is_embargoed_by_profile_country(args.user, args.course, TRUE, cache)

\* C1: for a course that is not restricted, check_access returns None for
\* every user, every IP address (blacklisted ones included) and every
\* country-rule configuration; it looks nothing up and logs nothing.
C1_UnrestrictedAllowed ==
    (Called /\ ~is_restricted_course(args.course))
        => /\ response = NoneResponse
           /\ logged = <<>>
           /\ lookups = <<>>

C1_Witness ==
    /\ Called
    /\ ~is_restricted_course(args.course)
    /\ args.ip \in blacklist_ips
    /\ blacklist[args.course] = Countries
    /\ response = NoneResponse

\* C2: for a restricted course and an IP on the IP blacklist, check_access
\* returns a block decision with the ip_blacklist reason, whatever the country
\* rules, the resolved country, the profile country and the IP whitelist say,
\* and without a GeoIP lookup.
C2_BlacklistedIpBlocked ==
    (Called /\ is_restricted_course(args.course) /\ args.ip \in blacklist_ips)
        => /\ IsBlock(response)
           /\ LoggedReasons = <<"ip_blacklist">>
           /\ logged[1].ip_addr = args.ip
           /\ lookups = <<>>

C2_Witness ==
    /\ Called
    /\ is_restricted_course(args.course)
    /\ args.ip \in blacklist_ips
    /\ args.ip \in whitelist_ips
    /\ whitelist[args.course] = {}
    /\ blacklist[args.course] = {}
    /\ IsBlock(response)

\* C3: for an IP on the IP whitelist and not on the IP blacklist, the IP
\* predicate returns no reason for every course, including one whose rules
\* deny the country of the IP; a call with such an IP makes no GeoIP lookup
\* and logs no IP reason.
C3_WhitelistedIpNotBlockedByIp ==
    /\ \A ip \in whitelist_ips \ blacklist_ips, c \in Courses, e \in BOOLEAN :
          LET r == _is_embargoed_by_ip(ip, c, e, cache)
          IN  r.msg = NoMsg /\ ~r.raised /\ r.geo = <<>>
    /\ (Called /\ args.ip \in whitelist_ips \ blacklist_ips)
          => /\ lookups = <<>>
             /\ response # Raised
             /\ \A i \in 1..Len(logged) : logged[i].reason[2] = "profile_country"

C3_Witness ==
    /\ Called
    /\ is_restricted_course(args.course)
    /\ args.ip = "1.1.1.1"
    /\ args.ip \in whitelist_ips \ blacklist_ips
    /\ "US" \in blacklist[args.course]
    /\ "US" \notin whitelist[args.course]
    /\ whitelist[args.course] # {}
    /\ args.user = "u2"

\* C4 as claimed: for a restricted course with a country whitelist W and an
\* IP on neither IP list, a resolved country outside W is blocked, and for a
\* resolved country in W the IP predicate does not block and the profile
\* predicate decides.
C4_Original ==
    (/\ Called
     /\ is_restricted_course(args.course)
     /\ whitelist[args.course] # {}
     /\ PlainIp)
        => LET ip_country == _country_code_from_ip(args.ip)
           IN  /\ ip_country \notin whitelist[args.course]
                    => IsBlock(response) /\ LoggedReasons = <<"ip_country">>
               /\ ip_country \in whitelist[args.course]
                    => /\ "ip_country" \notin {LoggedReasons[i] : i \in 1..Len(logged)}
                       /\ cache[args.user] # None
                       /\ IsBlock(response) <=> Blocked(ProfileVerdict)

\* C4, amended: the same, where a resolved country in W passes the IP
\* predicate only if it is not also on the course's country blacklist.
C4_WhitelistRule ==
    (/\ Called
     /\ is_restricted_course(args.course)
     /\ whitelist[args.course] # {}
     /\ PlainIp)
        => LET ip_country == _country_code_from_ip(args.ip)
           IN  /\ ip_country \notin whitelist[args.course]
                    => IsBlock(response) /\ LoggedReasons = <<"ip_country">>
               /\ (/\ ip_country \in whitelist[args.course]
                   /\ ip_country \notin blacklist[args.course])
                    => /\ "ip_country" \notin {LoggedReasons[i] : i \in 1..Len(logged)}
                       /\ cache[args.user] # None
                       /\ IsBlock(response) <=> Blocked(ProfileVerdict)

\* A US address, a whitelist without US: blocked; and a French address, a
\* whitelist with FR: passed on to the profile predicate.
C4_Witness ==
    /\ Called
    /\ is_restricted_course(args.course)
    /\ PlainIp
    /\ whitelist[args.course] = {"FR"}
    /\ blacklist[args.course] = {}
    /\ args.ip = "2001:db8::1"
    /\ args.user = "u1"
    /\ fetched = {"u1"}
    /\ LoggedReasons = <<"profile_country">>

\* C5: for a course with neither a country whitelist nor a country blacklist
\* the IP predicate gives no reason for any IP that is not on the IP
\* blacklist, whatever country it resolves to; a call for such a course and
\* IP logs no IP reason.
C5_NoListsNeverBlockedByIp ==
    /\ \A c \in Courses, ip \in Ips \ blacklist_ips, e \in BOOLEAN :
          (whitelist[c] = {} /\ blacklist[c] = {})
              => _is_embargoed_by_ip(ip, c, e, cache).msg = NoMsg
    /\ (/\ Called
        /\ whitelist[args.course] = {}
        /\ blacklist[args.course] = {}
        /\ args.ip \notin blacklist_ips)
          => /\ logged = <<>>
             /\ response \in {NoneResponse, Raised}

C5_Witness ==
    /\ Called
    /\ is_restricted_course(args.course)
    /\ whitelist[args.course] = {}
    /\ blacklist[args.course] = {}
    /\ PlainIp
    /\ lookups = <<args.ip>>
    /\ response = NoneResponse

\* C6: when a predicate blocked, check_access returns a redirect to
\* EMBARGO_SITE_REDIRECT_URL if that is set and not empty and a forbidden
\* response otherwise; when none blocked it returns None, which is neither;
\* it raises only when the GeoIP lookup itself raised.
C6_OutcomeMapping ==
    Called =>
        LET byIp == _is_embargoed_by_ip(args.ip, args.course, TRUE, cache)
            anyBlocked == /\ is_restricted_course(args.course)
                          /\ ~byIp.raised
                          /\ Blocked(byIp) \/ Blocked(ProfileVerdict)
        IN  /\ (anyBlocked /\ redirect_url \notin {None, ""})
                  => response = HttpResponseRedirect(redirect_url)
            /\ (anyBlocked /\ redirect_url \in {None, ""})
                  => response = HttpResponseForbidden
            /\ (~anyBlocked /\ ~(is_restricted_course(args.course) /\ byIp.raised))
                  => response = NoneResponse /\ ~IsBlock(response)
            /\ response = Raised
                  => /\ is_restricted_course(args.course)
                     /\ _country_code_from_ip(args.ip) = GeoRaise
                     /\ lookups = <<args.ip>>

C6_Witness ==
    /\ Called
    /\ redirect_url = ""
    /\ response = HttpResponseForbidden
    /\ LoggedReasons = <<"profile_country">>

\* C7: for a restricted course whose country blacklist holds the country the
\* IP resolves to (the IP on neither IP list), check_access blocks and logs
\* exactly one reason: the ip_country reason, naming the IP, the country and
\* the course.
C7_BlacklistedCountryLogged ==
    (/\ Called
     /\ is_restricted_course(args.course)
     /\ PlainIp
     /\ _country_code_from_ip(args.ip) \in blacklist[args.course])
        => /\ IsBlock(response)
           /\ Len(logged) = 1
           /\ logged[1] = [NoMsg EXCEPT
                  !.reason = <<"Embargo: ", "ip_country">>,
                  !.ip_addr = args.ip,
                  !.ip_country = _country_code_from_ip(args.ip),
                  !.from_course = <<"from course ", args.course>>]

C7_Witness ==
    /\ Called
    /\ is_restricted_course(args.course)
    /\ PlainIp
    /\ blacklist[args.course] = {"FR"}
    /\ whitelist[args.course] = {}
    /\ args.ip = "2001:db8::1"
    /\ IsBlock(response)
    /\ Len(logged) = 1

(***************************************************************************)
(* Properties of the depth-limited materialization and serialization.      *)
(***************************************************************************)

RECURSIVE LevelSet(_, _)
\* The blocks k levels below a block.
LevelSet(node, k) ==
    IF k = 0 THEN {node}
    ELSE UNION {LevelSet(kids[node][i], k - 1) : i \in 1..Len(kids[node])}

RECURSIVE Reach(_, _)
\* The descriptors reachable from one through attached children.
Reach(attr, node) ==
    {node} \cup
    IF attr[node].kind = "nodes"
    THEN UNION {Reach(attr, attr[node].items[i]) : i \in 1..Len(attr[node].items)}
    ELSE {}

RECURSIVE SerializedIds(_)
\* The ids of the nodes of a serialized content tree.
SerializedIds(data) ==
    {data.id} \cup UNION {SerializedIds(data.children[i]) :
                             i \in 1..Len(data.children)}

FetchedWithDepth ==
    treq.view = "content_detail" /\ treq.depth >= 0

\* What fetch_children(node, N) leaves, N >= 0: children attached for exactly
\* N levels below the node, None on the containers of level N, nothing
\* touched below, and the serialized tree ends at level N.
ExactlyNLevels ==
    /\ \A k \in 0..MaxNodes : \A m \in LevelSet(treq.node, k) :
          /\ ~has_children[m] => children[m] = Absent
          /\ (has_children[m] /\ k < treq.depth)
                => children[m] = NodesValue(kids[m])
          /\ (has_children[m] /\ k = treq.depth) => children[m] = NoneValue
          /\ (has_children[m] /\ k > treq.depth)
                => children[m] = KeysValue(kids[m])
    /\ Reach(children, treq.node)
          = UNION {LevelSet(treq.node, k) : k \in 0..treq.depth}
    /\ SerializedIds(tres[1]) = Reach(children, treq.node)
    /\ treq.depth = 0 => tres[1].children = <<>>

\* None on a descriptor the call reached tells that the node has children
\* that were cut off.
CutoffDistinguishable ==
    \A m \in Reach(children, treq.node) :
        children[m] = NoneValue => kids[m] # <<>>

\* C8 as claimed: fetch_children(node, N), N >= 0, attaches children for
\* exactly N levels, attaches none for N = 0, and a node cut off at the depth
\* limit (children = None) can be told from a node that has no children.
C8_Original ==
    FetchedWithDepth => ExactlyNLevels /\ CutoffDistinguishable

\* C8, amended: fetch_children(node, N), N >= 0, attaches children for
\* exactly N levels and none for N = 0; every container at the depth limit
\* gets children = None, whether it has children or not, and is serialized
\* with the same empty children list as a node without children.
C8_ExactlyNLevels ==
    FetchedWithDepth =>
        /\ ExactlyNLevels
        /\ \A m \in LevelSet(treq.node, treq.depth) :
              /\ has_children[m] => children[m] = NoneValue
              /\ serializer_get_children(children, m) = <<>>

\* A call with depth 1 on a course with a grandchild: the child is cut off.
C8_Witness ==
    /\ FetchedWithDepth
    /\ treq.depth = 1
    /\ treq.node = CourseNode
    /\ \E c \in LevelSet(CourseNode, 1) :
          kids[c] # <<>> /\ children[c] = NoneValue
    /\ children[CourseNode].kind = "nodes"
    /\ Len(tres[1].children) = Len(kids[CourseNode])

RECURSIVE ServerLevelsOk(_, _, _)
\* A node serialized with d levels to go: with d > 0 it carries a children
\* list of all its children in order, each with d - 1 levels to go; with
\* d = 0 it carries no children key.
ServerLevelsOk(data, node, d) ==
    /\ data.id = node
    /\ IF d > 0
       THEN /\ data.children.kind = "nodes"
            /\ Len(data.children.items) = Len(kids[node])
            /\ \A i \in 1..Len(kids[node]) :
                  ServerLevelsOk(data.children.items[i], kids[node][i], d - 1)
       ELSE data.children.kind = "absent"

\* The course of a courses_detail response with depth d > 0: 'content' lists
\* all its children in order, each serialized with d - 1 levels to go, and
\* the course itself has no 'children' key.
ServerCourseOk ==
    LET data == tres[1]
    IN  /\ data.children.kind = "absent"
        /\ data.content.kind = "nodes"
        /\ Len(data.content.items) = Len(kids[CourseNode])
        /\ \A i \in 1..Len(kids[CourseNode]) :
              ServerLevelsOk(data.content.items[i], kids[CourseNode][i],
                             treq.depth - 1)

ServerNoTree ==
    tres[1].children.kind = "absent" /\ tres[1].content.kind = "absent"

Included(field) ==
    \E i \in 1..Len(treq.include_fields) : treq.include_fields[i] = field

\* C9 as claimed: the course detail of the server API with depth d has
\* neither a 'content' nor a 'children' key for d = 0; for d > 0 the course
\* carries 'content', every node less than d levels below the course carries
\* 'children' and every node d levels below carries no 'children' key.
C9_Original ==
    treq.view = "courses_detail" =>
        /\ treq.depth = 0 => ServerNoTree
        /\ treq.depth > 0 => ServerCourseOk

\* C9, amended: the same for d = 0 when include_fields names neither
\* 'children' nor 'content', and for d > 0 when include_fields does not name
\* 'children'.
C9_DepthLevels ==
    treq.view = "courses_detail" =>
        /\ (treq.depth = 0 /\ ~Included("children") /\ ~Included("content"))
              => ServerNoTree
        /\ (treq.depth > 0 /\ ~Included("children")) => ServerCourseOk

\* depth=2 on a course with a grandchild: the chapter has children, its
\* sequence has no children key.
C9_Witness ==
    /\ treq.view = "courses_detail"
    /\ treq.depth = 2
    /\ treq.include_fields = <<>>
    /\ \E i \in 1..Len(kids[CourseNode]) :
          LET chapter == tres[1].content.items[i]
          IN  /\ chapter.children.kind = "nodes"
              /\ Len(chapter.children.items) > 0
              /\ kids[chapter.children.items[1].id] # <<>>
              /\ chapter.children.items[1].children.kind = "absent"

(***************************************************************************)
(* Properties of the graded-content filter.                                *)
(***************************************************************************)

FilterCalled == treq # NoRequest /\ treq.view = "filter_children"

RECURSIVE Below(_)
\* The blocks below a block.
Below(b) ==
    LET cs == {kids[b][i] : i \in 1..Len(kids[b])}
    IN  cs \cup UNION {Below(c) : c \in cs}

RECURSIVE PreOrder(_)
RECURSIVE PreOrderEach(_, _)
\* The blocks of a subtree in depth-first pre-order, children in list order.
PreOrder(b) == <<b>> \o PreOrderEach(kids[b], 1)

PreOrderEach(cs, i) ==
    IF i > Len(cs) THEN <<>> ELSE PreOrder(cs[i]) \o PreOrderEach(cs, i + 1)

\* The blocks strictly between the filtered block (inclusive) and m.
Above(root, m) == {a \in {root} \cup Below(root) : m \in Below(a)}

\* The blocks of the filtered subtree under no block that satisfies P.
Uncovered(root, P(_)) ==
    {m \in {root} \cup Below(root) : \A a \in Above(root, m) : ~P(a)}

\* The filter as a depth-first pre-order traversal that stops at a match:
\* it returns the topmost blocks satisfying P in pre-order, and visits no
\* block below a block that satisfies P.
FilterIsTopmost(P(_)) ==
    FilterCalled =>
        LET root == treq.node
            top == Uncovered(root, P)
        IN  /\ ~tres[1].raised
            /\ tres[1].problems =
                   SelectSeq(PreOrder(root), LAMBDA m : m \in top /\ P(m))
            /\ visited = top

\* A block satisfies the keyword arguments, 'graded' read as the block's
\* graded flag.
SatisfiesByFlag(m) ==
    \A pair \in kwargs :
        CASE pair[1] = "block_type" -> block_type[m] = pair[2]
          [] pair[1] = "category" -> m # treq.node /\ block_type[m] = pair[2]
          [] pair[1] = "graded" -> graded[m]

\* A block satisfies the keyword arguments, each compared with the key of
\* that name on the block dict; the blocks carry no 'graded' key.
SatisfiesByKey(m) ==
    \A pair \in kwargs :
        CASE pair[1] = "block_type" -> block_type[m] = pair[2]
          [] pair[1] = "category" -> m # treq.node /\ block_type[m] = pair[2]
          [] pair[1] = "graded" -> FALSE

\* C10 as stated: the filter returns [node] for a node that satisfies the
\* predicate and visits nothing below it, otherwise the concatenation in
\* child order of the children's results; filtering on graded == True
\* selects the graded blocks, so a graded chapter over a graded section
\* over an ungraded problem yields the chapter alone.
C10_Original == FilterIsTopmost(SatisfiesByFlag)

\* C10: the filter returns [node] for a node whose dict keys equal the
\* keyword arguments and visits nothing below it, otherwise the
\* concatenation in child order of the children's results; a block_type
\* filter returns the topmost blocks of that type, and a graded == True
\* filter returns nothing, because 'graded' is no key of the block dict.
C10_FilterTopmostByKey ==
    /\ FilterIsTopmost(SatisfiesByKey)
    /\ (FilterCalled /\ <<"graded", "True">> \in kwargs
            => tres[1].problems = <<>>)

\* A block_type filter stopped at a matching child of the filtered block and
\* left the block below that child unvisited.
C10_Witness ==
    /\ FilterCalled
    /\ kwargs = {<<"block_type", "problem">>}
    /\ block_type[treq.node] = "sequential"
    /\ \E c \in Blocks :
          /\ kids[treq.node] = <<c>>
          /\ tres[1].problems = <<c>>
          /\ kids[c] # <<>>
          /\ \A g \in Below(c) : g \notin visited /\ g \notin located

(***************************************************************************)
(* Properties of CourseStructure.                                          *)
(***************************************************************************)

\* The list a children value of the flat form stands for.
ChildIds(cs) == IF cs.kind = "none" THEN <<>> ELSE cs.items

\* The serialized data keeps the root id, the set of block ids, each block's
\* type, display_name, format and graded, and its children ids in order.
SerializedPreserves ==
    serialized.kind = "data" =>
        /\ serialized.root = flat.root
        /\ DOMAIN serialized.blocks = DOMAIN flat.blocks
        /\ \A key \in DOMAIN flat.blocks :
              LET d == flat.blocks[key]
                  b == serialized.blocks[key]
              IN  /\ b.id = d.id
                  /\ b.type = d.block_type
                  /\ b.display_name = d.display_name
                  /\ b.format = d.format
                  /\ b.graded = d.graded
                  /\ b.children.kind = "keys"
                  /\ b.children.items = ChildIds(d.children)

\* C11 as stated: from_dict followed by serialization preserves the root
\* id, the block ids, each block's type, display_name, format, graded and
\* children order, and from_dict of the serialized form gives an equal
\* CourseStructure.
C11_Original ==
    /\ SerializedPreserves
    /\ (rebuilt # NotBuilt => rebuilt = structure)

\* C11: from_dict followed by serialization preserves the root id, the
\* block ids, each block's type, display_name, format, graded and children
\* order; from_dict of the serialized form raises KeyError as soon as the
\* structure has a block, because the serialized block carries 'type' where
\* from_dict reads 'block_type', and gives an equal structure only for a
\* structure without blocks.
C11_SerializedPreserves ==
    /\ SerializedPreserves
    /\ (rebuilt # NotBuilt =>
            IF DOMAIN structure.blocks = {}
            THEN rebuilt = structure
            ELSE rebuilt = KeyError)

\* A structure of two blocks, one listing two children in descending order,
\* was serialized and the serialized form was handed to from_dict.
C11_Witness ==
    /\ rebuilt # NotBuilt
    /\ DOMAIN serialized.blocks = StructKeys
    /\ serialized.blocks["b1"].children.items = <<"b2", "b1">>
    /\ flat.blocks["b2"].children = NoneValue

\* What a mapping shows: for every key the attributes of its Block.
View(h, blocks) == [k \in DOMAIN blocks |-> h[blocks[k]]]

\* What the structure name shows through structure.blocks.
StructureView(name) ==
    IF structures[name] = NotBuilt THEN NotBuilt
    ELSE [kind |-> "structure", root |-> structures[name].root,
          blocks |-> View(heap, structures[name].blocks)]

\* What the caller holds: its mapping and the Blocks it made.
CallerView ==
    [blocks |-> View(heap, caller_blocks),
     objects |-> [r \in CallerRefs |-> heap[r]]]

\* The Block objects structure.blocks of the structure name refers to.
StructureRefs(name) ==
    IF structures[name] = NotBuilt THEN {}
    ELSE Range(structures[name].blocks)

\* No structure holds a Block of the caller or of another structure.
NoSharedBlock ==
    \A n \in StructureNames :
        /\ StructureRefs(n) \cap (CallerRefs \cup Range(caller_blocks)) = {}
        /\ \A o \in StructureNames \ {n} :
              StructureRefs(n) \cap StructureRefs(o) = {}

\* C12: a CourseStructure owns its blocks: the constructor leaves the
\* structure showing what the caller's mapping showed, a change made through
\* the caller's mapping or Blocks changes no structure.blocks, a change of a
\* structure's blocks changes neither the caller's mapping and Blocks nor
\* another structure, and no two structures (nor a structure and the caller)
\* ever share a Block.
C12_StructureOwnsBlocks ==
    [][/\ NoSharedBlock'
       /\ lastop' = "construct" =>
              /\ CallerView' = CallerView
              /\ \A n \in StructureNames :
                    IF structures[n] = NotBuilt /\ structures'[n] # NotBuilt
                    THEN StructureView(n)'.blocks = CallerView.blocks
                    ELSE StructureView(n)' = StructureView(n)
       /\ lastop' = "caller" =>
              \A n \in StructureNames : StructureView(n)' = StructureView(n)
       /\ lastop' \in StructureNames =>
              /\ CallerView' = CallerView
              /\ \A n \in StructureNames \ {lastop'} :
                    StructureView(n)' = StructureView(n)]_vars

\* Both structures were built from the caller's mapping, and the caller has
\* since changed a Block that a key of all three mappings stands for: the
\* structures still show the Block as it was.
C12_Witness ==
    /\ lastop = "caller"
    /\ \A n \in StructureNames : structures[n] # NotBuilt
    /\ \E k \in DOMAIN caller_blocks :
          /\ \A n \in StructureNames : k \in DOMAIN structures[n].blocks
          /\ heap[caller_blocks[k]].children = <<"b2">>
          /\ heap[caller_blocks[k]].graded
          /\ \A n \in StructureNames :
                /\ heap[structures[n].blocks[k]].children = <<>>
                /\ ~heap[structures[n].blocks[k]].graded

\* The ids a flat dictionary refers to: its root and all children.
ReferencedIds(d) ==
    {d.root} \cup UNION {{ChildIds(d.blocks[k].children)[i] :
                             i \in 1..Len(ChildIds(d.blocks[k].children))} :
                         k \in DOMAIN d.blocks}

\* The dictionary refers to a block id that is no key of its blocks.
MissingReference(d) == ReferencedIds(d) \ DOMAIN d.blocks # {}

\* C13: a structure that refers to a block id absent from the flat block
\* map (a missing root or a missing child) is reported as an error at
\* construction or at traversal: it is never built and serialized as if it
\* were whole.
C13_MissingReferenceRaises ==
    MissingReference(flat) => serialized.kind # "data"

(***************************************************************************)
(* Properties of the depth query parameter.                                *)
(***************************************************************************)

\* C14: a depth parameter that is no integer is rejected with a client
\* error (400) in every view that reads depth, and no request ends with an
\* unhandled exception.
C14_UnparseableDepthRejected ==
    dreq.view # "none" =>
        /\ dres.exception = None
        /\ dres.status \in {200, 400}
        /\ (dreq.raw # NoParam /\ int(dreq.raw) = ValueError
                => dres.status = 400)

(***************************************************************************)
(* Properties of the embargo access check: lookup failure.                 *)
(***************************************************************************)

\* The GeoIP lookup of the last call failed: the address is malformed (the
\* lookup raised) or unrecognised (the lookup found no country).
GeoLookupFailed ==
    /\ lookups = <<args.ip>>
    /\ _country_code_from_ip(args.ip) \in {"", GeoRaise}

\* C15: when the GeoIP lookup fails for the request IP during check_access
\* on a restricted course, the call ends with an error surfaced to the
\* caller, never with an allow (None) decision.
C15_GeoFailureIsError ==
    Called /\ args.course \in restricted /\ GeoLookupFailed
        => response = Raised

(***************************************************************************)
(* Properties of ApiKeyHeaderPermission.                                   *)
(***************************************************************************)

PermissionChecked == META # NoMeta

\* EDX_API_KEY is unset or None.
KeyIsNone == EDX_API_KEY \in {Unset, None}

\* The X-Edx-Api-Key header the request presents, or None: the HTTP header,
\* or in its absence the entry of META['headers'].
PresentedKey ==
    IF META.HTTP_X_EDX_API_KEY # None THEN META.HTTP_X_EDX_API_KEY
    ELSE IF META.headers = Unset THEN None
    ELSE META.headers

\* C16: has_permission allows the request if DEBUG is true and EDX_API_KEY
\* is unset or None; in every other case it allows the request if and only
\* if EDX_API_KEY is set and the X-Edx-Api-Key header is present and equal
\* to it, so with DEBUG true and a key configured a missing or wrong header
\* is denied.
C16_ApiKeyPermission ==
    PermissionChecked =>
        /\ (DEBUG /\ KeyIsNone => permitted)
        /\ (~(DEBUG /\ KeyIsNone) =>
               (permitted <=> /\ ~KeyIsNone
                              /\ PresentedKey # None
                              /\ PresentedKey = EDX_API_KEY))
        /\ (DEBUG /\ ~KeyIsNone /\ PresentedKey # EDX_API_KEY => ~permitted)

\* With DEBUG true and a key configured, a request with no HTTP header and a
\* wrong key in META['headers'] was denied.
C16_Witness ==
    /\ PermissionChecked
    /\ DEBUG
    /\ EDX_API_KEY = "k1"
    /\ META.HTTP_X_EDX_API_KEY = None
    /\ META.headers = "k2"
    /\ ~permitted

(***************************************************************************)
(* Properties of the course groups.                                        *)
(***************************************************************************)

\* The course and group the last request names.
LastPair == <<rreq.course_id, rreq.group_id>>
\* The request before the last one named the same course and group.
SamePairBefore(method) ==
    /\ rprev.method = method
    /\ rprev.course_id = rreq.course_id
    /\ rprev.group_id = rreq.group_id

\* C17: at most one CourseGroupRelationship exists per course and group
\* after any sequence of POST and DELETE requests; POST for an existing
\* course and group without a relationship creates exactly one and returns
\* 201, POST for a pair that has one returns 409 and creates nothing, POST
\* for an unknown course or group returns 404 and creates nothing.
C17_OneRelationshipPerPair ==
    /\ \A pair \in CourseIds \X GroupIds : relationships[pair] <= 1
    /\ rreq.method = "POST" =>
          /\ rres.exception = None
          /\ IF rreq.course_id \in ExistingCourses
                /\ rreq.group_id \in ExistingGroups
             THEN IF rbefore[LastPair] = 0
                  THEN /\ rres.status = 201
                       /\ relationships = [rbefore EXCEPT ![LastPair] = 1]
                  ELSE /\ rres.status = 409
                       /\ relationships = rbefore
             ELSE /\ rres.status = 404
                  /\ relationships = rbefore

\* A POST for a pair whose relationship the POST before it had created was
\* answered 409, with the pair's relationship and another course's in place.
C17_Witness ==
    /\ rreq.method = "POST"
    /\ SamePairBefore("POST")
    /\ rres.status = 409
    /\ relationships[LastPair] = 1
    /\ \E pair \in CourseIds \X GroupIds :
          pair # LastPair /\ relationships[pair] = 1

\* C18: DELETE of a course-group relationship returns 204 whether or not
\* the course, the group or the relationship exists and leaves no
\* relationship for the pair and every other pair as it was; a repeated
\* DELETE returns 204 again and changes nothing; a GET that follows returns
\* 404.
C18_DeleteIdempotent ==
    /\ rreq.method = "DELETE" =>
          /\ rres.status = 204
          /\ rres.exception = None
          /\ relationships = [rbefore EXCEPT ![LastPair] = 0]
          /\ (SamePairBefore("DELETE") => relationships = rbefore)
    /\ rreq.method = "GET" /\ SamePairBefore("DELETE") => rres.status = 404

\* A DELETE that removed a pair's relationship was repeated, while another
\* pair still has its relationship.
C18_Witness ==
    /\ rreq.method = "DELETE"
    /\ SamePairBefore("DELETE")
    /\ rprev.had = 1
    /\ rres.status = 204
    /\ \E pair \in CourseIds \X GroupIds : relationships[pair] = 1


(***************************************************************************)
(* Properties of the content list and of repeated materialization.         *)
(***************************************************************************)

\* The ids of the items of a serialized list, in order.
ItemIds(items) == [i \in 1..Len(items) |-> items[i].id]

\* The ids of every block serialized in the list, nested ones included.
ListedIds == UNION {SerializedIds(tres[i]) : i \in 1..Len(tres)}

\* The blocks from one level to d levels below the course.
LevelsDownTo(d) == UNION {LevelSet(CourseNode, k) : k \in 1..d}

ListedWithDepth == treq.view = "content_list" /\ treq.depth >= 0

\* The list is the course's direct children, in order.
ListsDirectChildren == ItemIds(tres) = get_children(CourseNode)

\* With the default depth no item carries nested children.
DefaultHasNoNested ==
    treq.depth = default_depth("CourseContentList")
        => \A i \in 1..Len(tres) : tres[i].children = <<>>

\* With depth 3 every child of a returned item carries its own children.
DepthThreeCarries ==
    treq.depth = 3 =>
        \A i \in 1..Len(tres) : \A j \in 1..Len(tres[i].children) :
            ItemIds(tres[i].children[j].children)
                = get_children(tres[i].children[j].id)

\* C19: CourseContentList with depth d >= 0 (default 1) returns the course's
\* direct children in order, with content attached no deeper than level d
\* below the course (the returned items themselves are at level 1); with the
\* default depth the items carry no nested children, and with depth 3 a
\* sequential two levels below the course carries its children.
C19_ContentListDepth ==
    ListedWithDepth =>
        /\ ListsDirectChildren
        /\ ListedIds \subseteq
              LevelsDownTo(IF treq.depth = 0 THEN 1 ELSE treq.depth)
        /\ DefaultHasNoNested
        /\ DepthThreeCarries

\* The same for d >= 1, where it holds.
ContentListDepthFromOne ==
    (ListedWithDepth /\ treq.depth >= 1) =>
        /\ ListsDirectChildren
        /\ ListedIds = LevelsDownTo(treq.depth)
        /\ DefaultHasNoNested
        /\ DepthThreeCarries

\* depth 0 on a course with a grandchild: the item carries it.
ContentListDepthZeroUnbounded ==
    /\ ListedWithDepth
    /\ treq.depth = 0
    /\ \E i \in 1..Len(tres) : tres[i].children # <<>>

\* C20: fetch_children is idempotent: a second call with the same depth on
\* the descriptor the first call returned leaves the same children
\* attributes and the same serialized tree as the first call.
C20_FetchChildrenIdempotent ==
    [][treq'.view = "content_detail_again"
          => (children' = children /\ tres' = tres)]_vars

\* A second call with depth 1 on a course with a grandchild: the course has
\* its children attached and the child is cut off, as after the first call.
C20_Witness ==
    /\ treq.view = "content_detail_again"
    /\ treq.node = CourseNode
    /\ treq.depth = 1
    /\ children[CourseNode] = NodesValue(kids[CourseNode])
    /\ \E c \in LevelSet(CourseNode, 1) :
          kids[c] # <<>> /\ children[c] = NoneValue
    /\ Len(tres[1].children) = Len(kids[CourseNode])

(***************************************************************************)
(* Properties of the order of the embargo predicates.                      *)
(***************************************************************************)

\* The IP predicate blocks the call that was made: the IP is blacklisted, or
\* its country fails the course's country rules.
IpPredicateBlocks ==
    /\ Called
    /\ is_restricted_course(args.course)
    /\ Blocked(_is_embargoed_by_ip(args.ip, args.course, TRUE, cache))

\* C21: in check_access on a restricted course the IP predicate runs first
\* and evaluation stops when it blocks: the call blocks with one IP reason
\* logged, no profile is read, the profile-country cache is left as it was
\* and no profile_country reason is logged.
C21_IpBlockSkipsProfile ==
    [][IpPredicateBlocks' =>
          /\ IsBlock(response')
          /\ Len(logged') = 1
          /\ logged'[1].reason[2] \in {"ip_blacklist", "ip_country"}
          /\ fetched' = {}
          /\ cache' = cache]_vars

\* A blacklisted IP for a user whose profile country, never cached, is on
\* the course's blacklist too: only the IP reason is logged and the cache is
\* still empty.
C21_Witness ==
    /\ IpPredicateBlocks
    /\ args.user = "u1"
    /\ args.ip \in blacklist_ips
    /\ "US" \in blacklist[args.course]
    /\ cache["u1"] = None
    /\ fetched = {}
    /\ LoggedReasons = <<"ip_blacklist">>

(***************************************************************************)
(* Properties of the profile-country cache.                                *)
(***************************************************************************)

\* The profile-country predicate runs in the call that was made: the course
\* is restricted and the IP predicate neither blocked nor raised.
ProfilePredicateRuns ==
    LET byIp == _is_embargoed_by_ip(args.ip, args.course, TRUE, cache)
    IN  /\ Called
        /\ is_restricted_course(args.course)
        /\ ~byIp.raised
        /\ ~Blocked(byIp)

\* The country rules of a course reject a country.
CountryRejected(course, country) ==
    \/ ~is_course_embargoed_in_country_list(course, country, "whitelist")
    \/ is_course_embargoed_in_country_list(course, country, "blacklist")

\* What a call that misses the cache stores for a user.
StoredCountry(user) ==
    IF profile[user] = None THEN "" ELSE Upper(profile[user])

\* C22: the profile-country predicate caches the profile country per user,
\* the empty string for no profile or no country: over any sequence of calls
\* and profile changes the profile of a user is read at most once, by a call
\* that misses the cache and stores the country; every call that finds a
\* cached value, the empty string included, reads no profile, leaves the cache
\* as it is and decides on the cached value whatever the profile holds now.
C22_ProfileReadOnce ==
    [][/\ \A u \in Users : profile_reads'[u] <= 1
       /\ profile' = profile =>
             \A u \in fetched' :
                 cache[u] = None /\ cache'[u] = StoredCountry(u)
       /\ (profile' = profile /\ ProfilePredicateRuns'
             /\ cache[args'.user] # None) =>
             /\ fetched' = {}
             /\ cache' = cache
             /\ IsBlock(response')
                   <=> CountryRejected(args'.course, cache[args'.user])
             /\ IsBlock(response') =>
                   /\ LoggedReasons' = <<"profile_country">>
                   /\ logged'[1].profile_country = cache[args'.user]]_vars

\* A user without a profile country was cached as the empty string; the
\* profile now says France, which the course's whitelist admits, and the call
\* still blocks on the cached empty string without reading the profile.
C22_Witness ==
    /\ ProfilePredicateRuns
    /\ args.user = "u2"
    /\ cache["u2"] = ""
    /\ profile["u2"] = "fr"
    /\ whitelist[args.course] = {"FR"}
    /\ fetched = {}
    /\ profile_reads["u2"] = 1
    /\ IsBlock(response)
    /\ logged[1].profile_country = ""

\* The verdict of the country rules on the profile country a user has.
ActualVerdict(user) ==
    IF CountryRejected(RaceCourse, StoredCountry(user))
    THEN "blocked" ELSE "allowed"

\* C23: under every interleaving of concurrent requests in the
\* profile-country predicate, the cache entry of a user is never anything but
\* empty or the value one isolated call would have written; a request that is
\* through has decided on the user's actual profile country, and a request
\* that missed the cache and is through has left that value in the cache.
C23_BenignRace ==
    /\ \A u \in Users : cache[u] \in {None, StoredCountry(u)}
    /\ \A r \in DOMAIN rpc :
          rpc[r] = "done" =>
              /\ rverdict[r] = ActualVerdict(ruser[r])
              /\ rmissed[r] => cache[ruser[r]] = StoredCountry(ruser[r])

\* Two requests of the same user both missed the cache, both wrote it and
\* both blocked on the blacklisted country of the profile.
C23_Witness ==
    /\ DOMAIN rpc # {}
    /\ \E r1, r2 \in DOMAIN rpc :
          /\ r1 # r2
          /\ ruser[r1] = "u1" /\ ruser[r2] = "u1"
          /\ rmissed[r1] /\ rmissed[r2]
          /\ rpc[r1] = "done" /\ rpc[r2] = "done"
          /\ rverdict[r1] = "blocked" /\ rverdict[r2] = "blocked"
    /\ profile["u1"] = "fr"
    /\ cache["u1"] = "FR"

\* The children attributes are those of freshly loaded descriptors: what
\* they were before the first call.
ChildrenUntouched == children = FreshChildren

\* C24: fetch_children is restartable: it changes no state shared across
\* calls, so after a call the children attribute of the node and of every
\* descriptor below it is what it was before the call, and a later call with
\* a larger depth on the same node materializes the full requested depth.
C24_Restartable ==
    /\ treq.view = "content_detail" => ChildrenUntouched
    /\ treq.view = "content_detail_deeper" => ExactlyNLevels

\* The half that holds: a later call with a larger depth on the descriptor
\* of an earlier call materializes the full requested depth.
DeeperCallMaterializes ==
    treq.view = "content_detail_deeper" => ExactlyNLevels

\* depth 0 on a course with a chapter: the course's children attribute, the
\* chapter's usage key before the call, is None after it.
FetchChildrenMutates ==
    /\ treq.view = "content_detail"
    /\ treq.node = CourseNode
    /\ treq.depth = 0
    /\ FreshChildren[CourseNode].kind = "keys"
    /\ kids[CourseNode] # <<>>
    /\ children[CourseNode] = NoneValue

(***************************************************************************)
(* Properties of the recursion of fetch_children.                          *)
(***************************************************************************)

\* The levels a tree has below a block.
Height(node) ==
    CHOOSE h \in 0..MaxNodes :
        LevelSet(node, h) # {} /\ LevelSet(node, h + 1) = {}

CallEnded == cstate \in {"returned", "raised"}

\* What holds at every moment of a call: with a depth d >= 0 there are never
\* more than d recursive levels below the first frame, whatever the children
\* relation; with a negative depth on a tree there are never more levels than
\* the tree has below the node, and a call that returned has attached the
\* children down to the leaves; the call raises only where the levels it
\* needs reach the interpreter's limit.
RecursionBounded ==
    /\ Len(cstack) <= RecursionLimit
    /\ creq.depth >= 0 =>
          /\ cmaxnest <= creq.depth
          /\ creq.depth < RecursionLimit => cstate # "raised"
    /\ (cstate # "idle" /\ creq.depth < 0 /\ kids \in Trees) =>
          /\ cmaxnest <= Height(creq.node)
          /\ Height(creq.node) < RecursionLimit => cstate # "raised"
          /\ cstate = "returned" =>
                /\ cmaxnest = Height(creq.node) \/ ~has_children[creq.node]
                /\ children = fetch_children(creq.node, creq.depth,
                                             FreshChildren)

StoredValue(k) ==
    IF k \in DOMAIN bd_stored THEN bd_stored[k]
    ELSE IF k \in {"fields", "defaults"} THEN EmptyDict ELSE None

\* The value the stored edit_info has for a key, None where it has none.
StoredEditValue(k) ==
    IF "edit_info" \in DOMAIN bd_stored /\ k \in DOMAIN bd_stored["edit_info"]
    THEN bd_stored["edit_info"][k] ELSE None

ScalarKeys == BlockKeys \ {"edit_info"}

\* An object as its constructor leaves it: not loaded, nothing computed.
AsConstructed(b) ==
    /\ ~b.definition_loaded
    /\ b.edit_info.original_usage = None
    /\ b.edit_info.original_usage_version = None
    /\ b.edit_info._subtree_edited_on = None
    /\ b.edit_info._subtree_edited_by = None

\* C26: BlockData round-trips through its storable form: to_storable() of
\* BlockData(m) has exactly the keys fields, block_type, definition, defaults
\* and edit_info, with the values of m ({} or None for a missing key, the
\* edit_info with its five stored keys), whatever was set on the object
\* since; BlockData of that equals the object on those fields and is as
\* constructed: definition_loaded False, original_usage and the subtree
\* fields None.
C26_BlockDataRoundTrip ==
    /\ bd_pc \in {"serialized", "rebuilt"} =>
          /\ DOMAIN bd_storable = BlockKeys
          /\ \A k \in ScalarKeys : bd_storable[k] = StoredValue(k)
          /\ DOMAIN bd_storable["edit_info"] = EditKeys
          /\ \A k \in EditKeys :
                bd_storable["edit_info"][k] = StoredEditValue(k)
    /\ (bd_pc = "built" /\ ~bd_block.definition_loaded) =>
          AsConstructed(bd_block)
    /\ bd_pc = "rebuilt" =>
          /\ \A k \in ScalarKeys : bd_again[k] = bd_block[k]
          /\ \A k \in EditKeys :
                bd_again.edit_info[k] = bd_block.edit_info[k]
          /\ AsConstructed(bd_again)

\* A stored block without fields, with a key of its own and with an edit_info
\* that holds original_usage but no edited_by, was loaded, had its definition
\* loaded and its original_usage set, was serialized and built again.
C26_Witness ==
    /\ bd_pc = "rebuilt"
    /\ "fields" \notin DOMAIN bd_stored
    /\ "published" \in DOMAIN bd_stored
    /\ "edit_info" \in DOMAIN bd_stored
    /\ "original_usage" \in DOMAIN bd_stored["edit_info"]
    /\ "edited_by" \notin DOMAIN bd_stored["edit_info"]
    /\ "edited_on" \in DOMAIN bd_stored["edit_info"]
    /\ bd_block.definition_loaded
    /\ bd_block.edit_info.original_usage = "u1"
    /\ bd_again.fields = EmptyDict
    /\ bd_again.edit_info.edited_on = "e1"

(***************************************************************************)
(* Properties of the course roles.                                         *)
(***************************************************************************)

\* The user holds one of the course roles that moderate the forum.
HoldsModeratingRole ==
    \E r \in {"instructor", "staff", "assistant"} :
        r \in DOMAIN access_roles /\ access_roles[r] >= 1

\* C27: after any sequence of _manage_role calls for one user and course the
\* user has the forum role Moderator if and only if the user holds one of the
\* course roles instructor, staff or assistant; no role ever has a second
\* CourseAccessRole row; a call with an unsupported role raises ValueError
\* and changes nothing.
C27_ModeratorFollowsRoles ==
    /\ forum_moderator <=> HoldsModeratingRole
    /\ \A r \in DOMAIN access_roles : access_roles[r] <= 1
    /\ mreq.role \notin supported_roles \cup {None} =>
          /\ mres = "ValueError"
          /\ access_roles = mbefore.rows
          /\ forum_moderator = mbefore.moderator
    /\ mreq.role \in supported_roles => mres = "returned"

\* staff was revoked from a user who is instructor as well: the user is
\* still Moderator.
C27_Witness ==
    /\ mreq = [role |-> "staff", action |-> "revoke"]
    /\ mbefore.rows["staff"] = 1
    /\ access_roles["staff"] = 0
    /\ access_roles["instructor"] = 1
    /\ forum_moderator

(***************************************************************************)
(* Properties of the graded content of a course.                           *)
(***************************************************************************)

GradedContentCalled == treq # NoRequest /\ treq.view = "graded_content"

\* The children _filter_children finds for a block in a structure no
\* traversal has touched.
ChildrenAlone(b) == _filter_children(b, kwargs, FreshStructure).problems

\* C28: get_queryset completes without error for every structure, also when
\* a graded block lies below another graded block, and the children computed
\* for each graded block are those a traversal of the untouched structure
\* finds, whatever the order the graded blocks are processed in.
C28_GradedContentCompletes ==
    GradedContentCalled =>
        /\ ~tres[1].raised
        /\ Len(tres[1].graded) = Cardinality(GradedBlocks)
        /\ \A i \in 1..Len(tres[1].graded) :
              tres[1].graded[i].children = ChildrenAlone(tres[1].graded[i].id)

\* A graded sequential below a graded sequential, asked for problems: the
\* second traversal meets block dicts where it expects keys and raises.
GradedBelowGradedRaises ==
    /\ GradedContentCalled
    /\ tres[1].raised
    /\ \E a, b \in GradedBlocks : b \in Below(a)

\* Without a graded block below another that does not match, the request
\* completes with the children a traversal alone finds.
GradedContentWithoutNesting ==
    (GradedContentCalled
        /\ \A a, b \in GradedBlocks :
              b \in Below(a) => block_type[b] \in {pair[2] : pair \in kwargs}
                                \/ kids[b] = <<>>
                                \/ block_type[a] \in {pair[2] : pair \in kwargs})
        => /\ ~tres[1].raised
           /\ \A i \in 1..Len(tres[1].graded) :
                 tres[1].graded[i].children
                     = ChildrenAlone(tres[1].graded[i].id)

\* C29: in the result of get_queryset no graded block is an element of its
\* own children list, for every filter_children_category, the block's own
\* block_type included.
C29_NoSelfChild ==
    (GradedContentCalled /\ ~tres[1].raised) =>
        \A i \in 1..Len(tres[1].graded) :
            \A j \in 1..Len(tres[1].graded[i].children) :
                tres[1].graded[i].children[j] # tres[1].graded[i].id

\* A graded block of the category asked for: its children list is the block
\* itself.
GradedBlockIsOwnChild ==
    /\ GradedContentCalled
    /\ ~tres[1].raised
    /\ \E i \in 1..Len(tres[1].graded) :
          /\ block_type[tres[1].graded[i].id] \in {pair[2] : pair \in kwargs}
          /\ tres[1].graded[i].children = <<tres[1].graded[i].id>>

\* For a category that is the block_type of no graded block, no graded block
\* is its own child.
NoSelfChildForOtherCategory ==
    (GradedContentCalled /\ ~tres[1].raised
        /\ \A b \in GradedBlocks : block_type[b] \notin {pair[2] : pair \in kwargs})
        => \A i \in 1..Len(tres[1].graded) :
               \A j \in 1..Len(tres[1].graded[i].children) :
                   tres[1].graded[i].children[j] # tres[1].graded[i].id

(***************************************************************************)
(* Properties of enrolling a user in a course.                             *)
(***************************************************************************)

Posted == ureq # NoPost

\* C30: every call of CoursesUsersList.post ends by returning a Response
\* with status 201, 400 or 404, whatever the course, the keys of the
\* payload and the users that exist; a POST with the email of an existing
\* user too.
C30_PostReturnsResponse ==
    Posted => /\ ures.returned = "Response"
              /\ ures.status \in {201, 400, 404}

\* The POST names an existing course with the email of an existing user and
\* no user_id.
PostsExistingEmail ==
    /\ Posted
    /\ course_exists(ureq.course_id)
    /\ "user_id" \notin ureq.keys
    /\ "email" \in ureq.keys
    /\ UserWithEmail(ureq.email)

\* Such a POST returns None and enrolls nobody.
ExistingEmailReturnsNone ==
    /\ PostsExistingEmail
    /\ ures = ReturnsNone
    /\ enrollments = {}

\* Every other POST returns a Response with one of the three statuses.
OtherPostsReturnResponse ==
    (Posted /\ ~PostsExistingEmail) =>
        /\ ures.returned = "Response"
        /\ ures.status \in {201, 400, 404}

====
